---- MODULE Spec2Model ----
(***************************************************************************)
(* Order lifecycle of the restaurant terminals: the order-entry modal      *)
(* (POSModal), the rapid-order modal (RapidOrderModal), the kitchen        *)
(* display (KitchenDisplayPage), the floor plan (FloorPlanPage) and the    *)
(* expeditor view (ExpoPage), all reading and writing one shared store.    *)
(*                                                                         *)
(* Every `await` of a handler is a point where other terminals run, so a   *)
(* handler is one action per store round trip: its read (getDoc) and its   *)
(* write (updateDoc / batch.commit).  Amounts are in thousandths of the    *)
(* currency unit, so that 2.000 is 2000.                                   *)
(***************************************************************************)
EXTENDS Integers, Sequences, FiniteSets, TLC

\* ------------------------------------------------------------------ bounds
NumTerms == 2        \* terminals
MaxOrders == 2       \* order documents in the store
MaxItems == 3        \* items on one order document
MaxCartLines == 2    \* lines of a cart
MaxQty == 2          \* quantity of one cart line
MaxOps == 4          \* staff actions (clicks) in one behaviour
MaxPricedQty == 3    \* quantity of one line of a cart that is only priced

Term == 1..NumTerms

\* ------------------------------------------------------- fixed environment
\* The menu cache handed to every component (prop menuItems / allItems).
MenuItems ==
  << [id |-> "m1", price |-> 2000, stationName |-> "grill",
      recipe |-> << [ingredientId |-> "X", quantity |-> 2] >>],
     [id |-> "m2", price |-> 3000, stationName |-> "bar",
      recipe |-> << [ingredientId |-> "X", quantity |-> 3],
                    [ingredientId |-> "Y", quantity |-> 1] >>] >>

MenuIds == {MenuItems[i].id : i \in 1..Len(MenuItems)}

Ingredients == {"X", "Y"}

InitStock == [g \in Ingredients |-> IF g = "X" THEN 5 ELSE 1]

\* The tenant's tax records and the profile's applied-tax-id list.
Taxes == << [id |-> "vat", name |-> "VAT", rate |-> 5],
            [id |-> "old", name |-> "Levy", rate |-> 10] >>

AppliedTaxIds == << "vat" >>

InitTables == << [id |-> "a", label |-> "T1", status |-> "none"],
                 [id |-> "b", label |-> "T2", status |-> "none"] >>

CustomerNames == {"bob"}

PaymentMethods == {"cash", "card"}

Undefined == "<undefined>"

\* ------------------------------------------------------------ pure helpers
RECURSIVE SumSeq(_)
SumSeq(s) == IF s = << >> THEN 0 ELSE Head(s) + SumSeq(Tail(s))

\* allItems.find(mi => mi.id === id), as a sequence of zero or one element
FindMenuItem(id) ==
  LET m == SelectSeq(MenuItems, LAMBDA mi : mi.id = id)
  IN  IF m = << >> THEN << >> ELSE << Head(m) >>

\* selectedModifiers.reduce((p, c) => p + c.optionPrice, 0)
ModifierSum(mods) == SumSeq([i \in 1..Len(mods) |-> mods[i].optionPrice])

\* the reduce with the modifiers' prices left out
CartSubtotalBase(cart) ==
  SumSeq([i \in 1..Len(cart) |-> cart[i].basePrice * cart[i].quantity])

\* cart.reduce(... (basePrice + modifiers) * quantity ...)
CartSubtotal(cart) ==
  SumSeq([i \in 1..Len(cart) |->
            (cart[i].basePrice + ModifierSum(cart[i].selectedModifiers))
              * cart[i].quantity])

\* combinedItems.reduce((acc, item) => acc + item.price * item.quantity, 0)
ItemsSubtotal(items) ==
  SumSeq([i \in 1..Len(items) |-> items[i].price * items[i].quantity])

\* ------------------------------------------------------------------- state
VARIABLES
  orders,      \* collection 'orders': sequence of documents, id = position
  floorPlan,   \* document floorPlans/{userId}: its tables array
  stock,       \* collection 'ingredients': ingredientId -> stock
  modal,       \* per terminal: the open order-entry modal and its cart
  pc,          \* per terminal: where its running handler is
  loc,         \* per terminal: the running handler's local variables
  opsLeft,     \* staff actions still allowed
  last,        \* the commit attempt the latest step was, if it was one
  taxDocs,     \* collection 'taxes': the tenant's tax documents
  profile,     \* document restaurantProfiles/{userId}: appliedTaxIds
  selectedStation, \* the kitchen display's station filter
  timer,       \* one OrderTimer: its elapsedSeconds and prepTimeMinutes
  access,      \* the latest request the security rules decided
  subs         \* per subscribed page: the orders its listener last set

vars == << orders, floorPlan, stock, modal, pc, loc, opsLeft, last,
          taxDocs, profile, selectedStation, timer, access, subs >>

\* taxes.find(t => t.id === taxId), as a sequence of zero or one element
FindTax(taxId) ==
  LET m == SelectSeq(taxDocs, LAMBDA t : t.id = taxId)
  IN  IF m = << >> THEN << >> ELSE << Head(m) >>

RECURSIVE FindTaxes(_)
\* ids.map(taxId => taxes.find(...)).filter(Boolean)
FindTaxes(ids) ==
  IF ids = << >> THEN << >> ELSE FindTax(Head(ids)) \o FindTaxes(Tail(ids))

\* (profile.appliedTaxIds).map(find).filter(Boolean).map(amount)
AppliedTaxes(subtotal) ==
  LET found == FindTaxes(profile.appliedTaxIds)
  IN  [i \in 1..Len(found) |->
         [name |-> found[i].name, rate |-> found[i].rate,
          amount |-> (subtotal * found[i].rate) \div 100]]

TaxApplied(t) ==
  \E i \in 1..Len(profile.appliedTaxIds) : profile.appliedTaxIds[i] = t.id

\* taxes.filter(t => appliedTaxIds.includes(t.id)).map(amount)
RapidAppliedTaxes(subtotal) ==
  LET found == SelectSeq(taxDocs, TaxApplied)
  IN  [i \in 1..Len(found) |->
         [name |-> found[i].name, rate |-> found[i].rate,
          amount |-> (subtotal * found[i].rate) \div 100]]

\* appliedTaxes.reduce((sum, t) => sum + t.amount, 0)
TaxAmount(taxes) == SumSeq([i \in 1..Len(taxes) |-> taxes[i].amount])

\* appliedDiscounts.reduce((s, d) => s + d.amount, 0)
DiscountSum(order) ==
  SumSeq([i \in 1..Len(order.appliedDiscounts) |-> order.appliedDiscounts[i].amount])

\* Modifier option names known to the menu, in the order of JavaScript's
\* default string sort.
NameOrder == << "cheese", "no ice", "noice", "none" >>

NameRank(n) == CHOOSE i \in 1..Len(NameOrder) : NameOrder[i] = n

RECURSIVE InsertName(_, _)
InsertName(n, s) ==
  IF s = << >> THEN << n >>
  ELSE IF NameRank(n) <= NameRank(Head(s)) THEN << n >> \o s
       ELSE << Head(s) >> \o InsertName(n, Tail(s))

RECURSIVE SortNames(_)
\* names.sort()
SortNames(s) == IF s = << >> THEN << >> ELSE InsertName(Head(s), SortNames(Tail(s)))

\* selectedModifiers.map(m => m.optionName).sort().join(...)
ModifiersString(mods) == SortNames([i \in 1..Len(mods) |-> mods[i].optionName])

\* optionName.replace(/\s/g, '')
StripSpaces(n) == IF n = "no ice" THEN "noice" ELSE n

\* selectedModifiers.map(m => m.optionName.replace(/\s/g, '')).sort().join('-')
StrippedModifiersString(mods) ==
  SortNames([i \in 1..Len(mods) |-> StripSpaces(mods[i].optionName)])

\* String.prototype.toUpperCase on the labels and identifiers in use
ToUpperCase(s) ==
  CASE s = "t1" -> "T1"
    [] s = "t2" -> "T2"
    [] s = "bob" -> "BOB"
    [] OTHER -> s

\* A write batch: updates of existing orders, order documents to create, the
\* floor plan's new tables array (or none), and ingredient decrements.
EmptyBatch ==
  [updates |-> << >>, creates |-> << >>, plan |-> << >>,
   decrements |-> [g \in Ingredients |-> 0]]

NoModal ==
  [open |-> "none", type |-> "takeaway", tableNumber |-> "", orderIds |-> << >>,
   identifier |-> "", cart |-> << >>, pending |-> FALSE, tenderedAmount |-> << >>]

NoLoc ==
  [raced |-> {}, reads |-> {}, batch |-> EmptyBatch,
   targets |-> << >>, toRead |-> << >>, docs |-> << >>, orderItems |-> << >>]

\* An OrderTimer just mounted on an item without target prep time.
NoTimer == [elapsedSeconds |-> 0, prepTimeMinutes |-> << >>]

\* The subscribed pages, and their order sets before the first snapshot.
Views == { "kitchen", "floor", "expo" }

NoSubs == [v \in Views |-> << >>]

\* No request decided yet.
NoAccess ==
  [auth |-> << >>, collection |-> "none", op |-> "none", resourceUserId |-> "",
   requestUserId |-> "", locked |-> {}, allowed |-> FALSE]

NoLast == [kind |-> "none", t |-> 0, ok |-> FALSE, batch |-> EmptyBatch]

\* The tax settings are written by the settings page only, the kitchen
\* display's station filter by its station buttons only, a timer by its
\* interval only, a page's order set by its listener only, and the rules'
\* latest decision is kept.
SettingsKept ==
  UNCHANGED << taxDocs, profile, selectedStation, timer, access, subs >>

Click == opsLeft > 0 /\ opsLeft' = opsLeft - 1 /\ last' = NoLast /\ SettingsKept

\* --------------------------------------------------------------- the store
\* updateDoc / batch.update: the named fields are replaced, the others kept.
UpdateDoc(doc, fields) ==
  [f \in DOMAIN doc |-> IF f \in DOMAIN fields THEN fields[f] ELSE doc[f]]

UpdatedOrders(b) == {b.updates[i].id : i \in 1..Len(b.updates)}

\* independent writes of which only the first lands
ApplyFirstUpdate(os, ups) ==
  IF ups = << >> THEN os
  ELSE [os EXCEPT ![Head(ups).id] = UpdateDoc(@, Head(ups).fields)]

RECURSIVE ApplyUpdates(_, _)
\* the batch's updates of existing documents
ApplyUpdates(os, ups) ==
  IF ups = << >> THEN os
  ELSE ApplyUpdates([os EXCEPT ![Head(ups).id] = UpdateDoc(@, Head(ups).fields)],
                    Tail(ups))

\* batch.set(doc(collection(db, 'orders')), data): a new document
AddDocs(os, creates) ==
  os \o [i \in 1..Len(creates) |-> UpdateDoc(creates[i], [id |-> Len(os) + i])]

\* batch.commit() / updateDoc(): every write of the batch takes effect in one
\* step; stock: increment(-quantity) is applied to the stored value.
CommitOrders(b) == AddDocs(ApplyUpdates(orders, b.updates), b.creates)

CommitPlan(b) == IF b.plan = << >> THEN floorPlan ELSE b.plan[1]

\* the ingredient writes issued apart from the batch, and lost
CommitStockLost(b) == stock

CommitStock(b) == [g \in Ingredients |-> stock[g] - b.decrements[g]]

\* Listeners: a modal subscribed to orders the batch wrote has a snapshot
\* pending; a handler that had read one of them has been raced.
Notified(m, written) ==
  IF m.open = "pos" /\ \E i \in 1..Len(m.orderIds) : m.orderIds[i] \in written
  THEN [m EXCEPT !.pending = TRUE] ELSE m

Raced(l, written, kind) ==
  IF l.reads \cap written # {} THEN [l EXCEPT !.raced = @ \cup {kind}] ELSE l

\* ------------------------------------------------------------------ carts
\* prevCart.findIndex(pred): 0 stands for -1
FindIndex(cart, pred(_)) ==
  IF \E i \in 1..Len(cart) : pred(cart[i])
  THEN CHOOSE i \in 1..Len(cart) :
         pred(cart[i]) /\ \A j \in 1..(i - 1) : ~pred(cart[j])
  ELSE 0

\* handleAddToCart: same cartItemId and same notes merge, else a new line
AddToCart(cart, item) ==
  LET k == FindIndex(cart, LAMBDA ci : ci.cartItemId = item.cartItemId
                                       /\ ci.notes = item.notes)
  IN  IF k > 0 THEN [cart EXCEPT ![k].quantity = @ + item.quantity]
      ELSE Append(cart, item)

\* The update without the removal of a line that reaches 0.
UpdateQuantityKeep(cart, cartItemId, change) ==
  LET k == FindIndex(cart, LAMBDA ci : ci.cartItemId = cartItemId)
  IN  IF k = 0 THEN cart ELSE [cart EXCEPT ![k].quantity = @ + change]

\* handleUpdateQuantity: the first line with that cartItemId changes
UpdateQuantity(cart, cartItemId, change) ==
  LET k == FindIndex(cart, LAMBDA ci : ci.cartItemId = cartItemId)
  IN  IF k = 0 THEN cart
      ELSE IF cart[k].quantity + change <= 0
           THEN SubSeq(cart, 1, k - 1) \o SubSeq(cart, k + 1, Len(cart))
           ELSE [cart EXCEPT ![k].quantity = @ + change]

\* Date.now() of a click: later than the stamp of every line of the cart
LastStamp(cart) ==
  LET stamps == {cart[i].cartItemId[Len(cart[i].cartItemId)] : i \in 1..Len(cart)}
  IN  IF stamps = {} THEN 0 ELSE CHOOSE x \in stamps : \A y \in stamps : y <= x

\* POSModal.handleSelectItem for an item without modifier groups
PosCartItem(mi, now) ==
  [cartItemId |-> << mi.id, now >>, id |-> mi.id, basePrice |-> mi.price,
   quantity |-> 1, selectedModifiers |-> << >>, notes |-> Undefined]

\* RapidOrderModal.handleSelectItem for an item without modifier groups
RapidCartItem(mi) ==
  [cartItemId |-> << mi.id >>, id |-> mi.id, basePrice |-> mi.price,
   quantity |-> 1, selectedModifiers |-> << >>, notes |-> Undefined]

\* allItems.find(mi => mi.id === item.menuItemId)?.price || item.price
RehydratedBasePrice(item) ==
  LET mi == FindMenuItem(item.menuItemId)
  IN  IF mi # << >> /\ mi[1].price # 0 THEN mi[1].price ELSE item.price

RECURSIVE RehydrateItems(_, _, _)
\* order.items.forEach of the snapshot callback; now is its Date.now()
RehydrateItems(cart, items, now) ==
  IF items = << >> THEN cart
  ELSE LET item == Head(items)
           cartItemId == << item.menuItemId,
                            StrippedModifiersString(item.selectedModifiers) >>
           k == FindIndex(cart, LAMBDA ci : ci.cartItemId = cartItemId
                                            /\ ci.notes = item.notes)
           line == [cartItemId |-> Append(cartItemId, now),
                    id |-> item.menuItemId,
                    basePrice |-> RehydratedBasePrice(item),
                    quantity |-> item.quantity,
                    selectedModifiers |-> item.selectedModifiers,
                    notes |-> item.notes]
       IN  RehydrateItems(IF k > 0 THEN [cart EXCEPT ![k].quantity = @ + item.quantity]
                          ELSE Append(cart, line),
                          Tail(items), now)

RECURSIVE RehydrateOrders(_, _, _)
\* fetchedOrders.forEach of the snapshot callback
RehydrateOrders(cart, docs, now) ==
  IF docs = << >> THEN cart
  ELSE RehydrateOrders(RehydrateItems(cart, Head(docs).items, now), Tail(docs), now)

\* query(orders, where('__name__', 'in', orderIds)): the documents by id
DocsIn(os, orderIds) ==
  SelectSeq(os, LAMBDA o : \E i \in 1..Len(orderIds) : orderIds[i] = o.id)

\* cart.map(cartItem => ({...})) of handleSendToKitchen / handleFinalizeOrder
PosOrderItems(cart, completed) ==
  [i \in 1..Len(cart) |->
     [menuItemId |-> cart[i].id,
      price |-> cart[i].basePrice + ModifierSum(cart[i].selectedModifiers),
      quantity |-> cart[i].quantity,
      selectedModifiers |-> cart[i].selectedModifiers,
      isCompleted |-> completed,
      notes |-> IF cart[i].notes = Undefined THEN "" ELSE cart[i].notes,
      inventoryDeducted |-> FALSE]]

\* cart.map(cartItem => ({...})) of RapidOrderModal.handleSubmitOrder
RapidOrderItems(cart) ==
  [i \in 1..Len(cart) |->
     [menuItemId |-> cart[i].id,
      price |-> cart[i].basePrice + ModifierSum(cart[i].selectedModifiers),
      quantity |-> cart[i].quantity,
      selectedModifiers |-> cart[i].selectedModifiers,
      isCompleted |-> FALSE,
      notes |-> IF cart[i].notes = "" THEN Undefined ELSE cart[i].notes,
      inventoryDeducted |-> FALSE]]

\* The order document both modals create.
NewOrderData(items, plate, type, subtotal, taxes, status, pm) ==
  [id |-> 0, items |-> items, plateNumber |-> plate, orderType |-> type,
   subtotal |-> subtotal, taxes |-> taxes, taxAmount |-> TaxAmount(taxes),
   tip |-> 0, platformFee |-> 0, appliedDiscounts |-> << >>,
   total |-> subtotal + TaxAmount(taxes), status |-> status,
   paymentMethod |-> pm]

\* ------------------------------------------------------------- live views
\* A page's onSnapshot listener has delivered every committed write before
\* the next click on that page, so a page reads its query off the store.
\* FloorPlanPage's query: status in ['Pending', 'New', 'In Progress', 'Ready']
FloorOrders(view) ==
  SelectSeq(view, LAMBDA o : o.status \in {"Pending", "New", "In Progress", "Ready"})

\* KitchenDisplayPage's query: status in ['New', 'In Progress']
KdsOrders(view) == SelectSeq(view, LAMBDA o : o.status \in {"New", "In Progress"})

\* ExpoPage's query: status in ['In Progress', 'Ready']
ExpoOrders(view) == SelectSeq(view, LAMBDA o : o.status \in {"In Progress", "Ready"})

\* the lookup with the plate number compared as typed
TableOrdersExact(table, view) ==
  SelectSeq(FloorOrders(view),
            LAMBDA o : /\ o.plateNumber # ""
                       /\ o.orderType # "takeaway"
                       /\ o.plateNumber = table.label)

\* ordersByTable.get(table.label.toUpperCase()) || [], by creation time
TableOrders(table, view) ==
  SelectSeq(FloorOrders(view),
            LAMBDA o : /\ o.plateNumber # ""
                       /\ o.orderType # "takeaway"
                       /\ ToUpperCase(o.plateNumber) = ToUpperCase(table.label))

\* tablesWithStatus: the status shown for one table
DerivedStatus(table, tableOrders) ==
  IF table.status = "needs_cleaning" THEN "needs_cleaning"
  ELSE IF Len(tableOrders) > 0
       THEN IF \E i \in 1..Len(tableOrders) : tableOrders[i].status = "Ready"
            THEN "attention"
            ELSE IF \E i \in 1..Len(tableOrders) :
                      tableOrders[i].status \in {"In Progress", "New"}
                 THEN "ordered"
                 ELSE "available"
       ELSE IF table.status = "seated" THEN "seated" ELSE "available"

\* the map without the id test: every table takes the status
TablesAllWith(tables, tableId, status) ==
  [k \in 1..Len(tables) |-> [tables[k] EXCEPT !.status = status]]

\* floorPlan.tables.map(t => t.id === tableId ? { ...t, status } : t)
TablesWithId(tables, tableId, status) ==
  [k \in 1..Len(tables) |->
     IF tables[k].id = tableId THEN [tables[k] EXCEPT !.status = status]
     ELSE tables[k]]

\* floorPlan.tables.map(t => t.label === tableNumber ? { ...t, status } : t)
TablesWithLabel(tables, tableNumber, status) ==
  [k \in 1..Len(tables) |->
     IF tables[k].label = tableNumber THEN [tables[k] EXCEPT !.status = status]
     ELSE tables[k]]

\* ------------------------------------------------ opening the entry modals
OpenModal(t, m) ==
  /\ modal[t].open = "none"
  /\ Click
  /\ modal' = [modal EXCEPT ![t] = m]
  /\ UNCHANGED << orders, floorPlan, stock, pc, loc >>

\* FloorPlanPage.handleSelectTable on table k of the terminal's view
FloorSelectTable(t, k) ==
  /\ k \in 1..Len(floorPlan)
  /\ modal[t].open = "none"
  /\ LET table == floorPlan[k]
         tableOrders == TableOrders(table, orders)
     IN  IF DerivedStatus(table, tableOrders) = "needs_cleaning"
         THEN \* handleUpdateTableStatus(table.id, 'available')
              /\ Click
              /\ floorPlan' = TablesWithId(floorPlan, table.id, "available")
              /\ UNCHANGED << orders, stock, modal, pc, loc >>
         ELSE OpenModal(t, [open |-> "pos", type |-> "dine-in",
                            tableNumber |-> table.label,
                            orderIds |-> [i \in 1..Len(tableOrders) |-> tableOrders[i].id],
                            identifier |-> table.label, cart |-> << >>,
                            pending |-> Len(tableOrders) > 0, tenderedAmount |-> << >>])

\* ExpoPage: 'proceed to payment' on a card whose order is Ready
ExpoProceedToPayment(t, i) ==
  /\ i \in 1..Len(ExpoOrders(orders))
  /\ LET order == ExpoOrders(orders)[i]
     IN  /\ order.status = "Ready"
         /\ OpenModal(t, [open |-> "pos", type |-> order.orderType,
                          tableNumber |-> order.plateNumber,
                          orderIds |-> << order.id >>,
                          identifier |-> order.plateNumber, cart |-> << >>,
                          pending |-> TRUE, tenderedAmount |-> << >>])

\* POSModal opened for a new takeaway order; the customer identifier typed
PosOpenTakeaway(t, name) ==
  OpenModal(t, [open |-> "pos", type |-> "takeaway", tableNumber |-> "",
                orderIds |-> << >>, identifier |-> name, cart |-> << >>,
                pending |-> FALSE, tenderedAmount |-> << >>])

\* RapidOrderModal opened to append to an open order the terminal shows
RapidOpenAppend(t, i) ==
  /\ i \in 1..Len(FloorOrders(orders))
  /\ LET order == FloorOrders(orders)[i]
     IN  OpenModal(t, [open |-> "rapid", type |-> order.orderType,
                       tableNumber |-> order.plateNumber,
                       orderIds |-> << order.id >>,
                       identifier |-> order.plateNumber, cart |-> << >>,
                       pending |-> FALSE, tenderedAmount |-> << >>])

\* POSModal: the orders snapshot callback rebuilds the cart
PosRehydrate(t) ==
  /\ modal[t].open = "pos"
  /\ modal[t].pending
  /\ modal' = [modal EXCEPT ![t].pending = FALSE,
                            ![t].cart = RehydrateOrders(<< >>,
                                          DocsIn(orders, modal[t].orderIds), 0)]
  /\ last' = NoLast
  /\ SettingsKept
  /\ UNCHANGED << orders, floorPlan, stock, pc, loc, opsLeft >>

\* handleSelectItem -> handleAddToCart, in either modal
SelectItem(t, m) ==
  /\ modal[t].open # "none"
  /\ m \in 1..Len(MenuItems)
  /\ LET cart == modal[t].cart
         item == IF modal[t].open = "pos"
                 THEN PosCartItem(MenuItems[m], LastStamp(cart) + 1)
                 ELSE RapidCartItem(MenuItems[m])
         newCart == AddToCart(cart, item)
     IN  /\ Len(newCart) <= MaxCartLines
         /\ \A i \in 1..Len(newCart) : newCart[i].quantity <= MaxQty
         /\ Click
         /\ modal' = [modal EXCEPT ![t].cart = newCart]
  /\ UNCHANGED << orders, floorPlan, stock, pc, loc >>

\* handleUpdateQuantity from the +/- buttons of cart line k
ChangeQuantity(t, k, change) ==
  /\ modal[t].open # "none"
  /\ k \in 1..Len(modal[t].cart)
  /\ LET newCart == UpdateQuantity(modal[t].cart, modal[t].cart[k].cartItemId, change)
     IN  /\ \A i \in 1..Len(newCart) : newCart[i].quantity <= MaxQty
         /\ Click
         /\ modal' = [modal EXCEPT ![t].cart = newCart]
  /\ UNCHANGED << orders, floorPlan, stock, pc, loc >>

\* Notes typed on a cart line.
Notes == { "no salt" }

\* handleNoteChange from the note input of cart line k
NoteChange(t, k, note) ==
  /\ modal[t].open # "none"
  /\ k \in 1..Len(modal[t].cart)
  /\ modal[t].cart[k].notes # note
  /\ Click
  /\ modal' = [modal EXCEPT ![t].cart =
                 [i \in 1..Len(modal[t].cart) |->
                    IF modal[t].cart[i].cartItemId = modal[t].cart[k].cartItemId
                    THEN [modal[t].cart[i] EXCEPT !.notes = note]
                    ELSE modal[t].cart[i]]]
  /\ UNCHANGED << orders, floorPlan, stock, pc, loc >>

\* ------------------------------------------------- commits and failures
Committing(t) ==
  pc[t] \in {"send_commit", "fin_commit", "rapid_commit", "ci_write", "bump_commit"}

\* Order documents the running handlers are about to create.
CreatesInFlight ==
  Cardinality({u \in Term : Committing(u) /\ loc[u].batch.creates # << >>})

\* The handler's batch.commit() / updateDoc() succeeds.
Commit(t, kind, close) ==
  LET b == loc[t].batch
      written == UpdatedOrders(b)
  IN  /\ orders' = CommitOrders(b)
      /\ floorPlan' = CommitPlan(b)
      /\ stock' = CommitStock(b)
      /\ modal' = [u \in Term |-> IF u = t /\ close THEN NoModal
                                  ELSE Notified(modal[u], written)]
      /\ loc' = [u \in Term |-> IF u = t THEN NoLoc
                                ELSE Raced(loc[u], written, kind)]
      /\ pc' = [pc EXCEPT ![t] = "idle"]
      /\ last' = [kind |-> pc[t], t |-> t, ok |-> TRUE, batch |-> b]
      /\ SettingsKept
      /\ UNCHANGED opsLeft

\* The rejection handled like the success: the modal is closed.
CommitFailsClosing(t) ==
  /\ Committing(t)
  /\ opsLeft > 0
  /\ opsLeft' = opsLeft - 1
  /\ pc' = [pc EXCEPT ![t] = "idle"]
  /\ loc' = [loc EXCEPT ![t] = NoLoc]
  /\ last' = [kind |-> pc[t], t |-> t, ok |-> FALSE, batch |-> loc[t].batch]
  /\ SettingsKept
  /\ modal' = [modal EXCEPT ![t] = NoModal]
  /\ UNCHANGED << orders, floorPlan, stock >>

\* The handler's batch.commit() / updateDoc() rejects: nothing is written,
\* the catch block keeps the modal and its cart.  A rejection is charged to
\* the same budget as the clicks, which bounds the number of rejections.
CommitFails(t) ==
  /\ Committing(t)
  /\ opsLeft > 0
  /\ opsLeft' = opsLeft - 1
  /\ pc' = [pc EXCEPT ![t] = "idle"]
  /\ loc' = [loc EXCEPT ![t] = NoLoc]
  /\ last' = [kind |-> pc[t], t |-> t, ok |-> FALSE, batch |-> loc[t].batch]
  /\ SettingsKept
  /\ UNCHANGED << orders, floorPlan, stock, modal >>

StartHandler(t, next, l) ==
  /\ pc' = [pc EXCEPT ![t] = next]
  /\ loc' = [loc EXCEPT ![t] = l]
  /\ UNCHANGED << orders, floorPlan, stock, modal >>

\* The append with the order's stored taxes carried over unrecomputed.
PosAppendFieldsStaleTax(existingOrder, orderItems) ==
  LET combinedItems == existingOrder.items \o orderItems
      newSubtotal == ItemsSubtotal(combinedItems)
  IN  [items |-> combinedItems, subtotal |-> newSubtotal,
       taxes |-> existingOrder.taxes, taxAmount |-> existingOrder.taxAmount,
       total |-> newSubtotal + existingOrder.taxAmount + existingOrder.tip,
       status |-> "In Progress"]

\* ------------------------------------------------------ POSModal: send
\* existing order + cart -> the fields handleSendToKitchen writes
PosAppendFields(existingOrder, orderItems) ==
  LET combinedItems == existingOrder.items \o orderItems
      newSubtotal == ItemsSubtotal(combinedItems)
      newAppliedTaxes == AppliedTaxes(newSubtotal)
      newTaxAmount == TaxAmount(newAppliedTaxes)
  IN  [items |-> combinedItems, subtotal |-> newSubtotal,
       taxes |-> newAppliedTaxes, taxAmount |-> newTaxAmount,
       total |-> newSubtotal + newTaxAmount + existingOrder.tip,
       status |-> "In Progress"]

\* handleSendToKitchen up to batch.commit()
PosSendToKitchen(t) ==
  LET m == modal[t]
      orderItems == PosOrderItems(m.cart, FALSE)
      subtotal == CartSubtotal(m.cart)
  IN  /\ m.open = "pos"
      /\ pc[t] = "idle"
      /\ ~(m.cart = << >> \/ (m.type = "takeaway" /\ m.identifier = ""))
      /\ Click
      /\ IF m.orderIds # << >>
         THEN LET existingOrder == orders[m.orderIds[1]]
              IN  /\ Len(existingOrder.items) + Len(orderItems) <= MaxItems
                  /\ StartHandler(t, "send_commit",
                       [NoLoc EXCEPT
                          !.reads = {existingOrder.id},
                          !.docs = << existingOrder >>,
                          !.orderItems = orderItems,
                          !.batch = [EmptyBatch EXCEPT !.updates =
                             << [id |-> existingOrder.id,
                                 fields |-> PosAppendFields(existingOrder, orderItems)] >>]])
         ELSE /\ Len(orders) + CreatesInFlight < MaxOrders
              /\ StartHandler(t, "send_commit",
                   [NoLoc EXCEPT
                      !.orderItems = orderItems,
                      !.batch = [EmptyBatch EXCEPT
                         !.creates = << NewOrderData(orderItems, m.identifier, m.type,
                                          subtotal, AppliedTaxes(subtotal), "New",
                                          Undefined) >>,
                         !.plan = IF m.type = "dine-in" /\ m.tableNumber # ""
                                  THEN << TablesWithLabel(floorPlan, m.tableNumber,
                                                          "ordered") >>
                                  ELSE << >>]])

PosSendCommit(t) == pc[t] = "send_commit" /\ Commit(t, "append", TRUE)

\* -------------------------------------------------- POSModal: finalize
RECURSIVE RecipeDeduction(_, _, _)
\* one order item's recipe lines for ingredient g
RecipeDeduction(recipe, quantity, g) ==
  IF recipe = << >> THEN 0
  ELSE (IF Head(recipe).ingredientId = g THEN Head(recipe).quantity * quantity ELSE 0)
       + RecipeDeduction(Tail(recipe), quantity, g)

RECURSIVE DeductionsOverwritten(_, _)
\* deductions.set(id, totalDeduction) without the amount accumulated so far
DeductionsOverwritten(orderItems, g) ==
  IF orderItems = << >> THEN 0
  ELSE LET menuItem == FindMenuItem(Head(orderItems).menuItemId)
           rest == DeductionsOverwritten(Tail(orderItems), g)
           own == IF menuItem = << >> THEN 0
                  ELSE RecipeDeduction(menuItem[1].recipe, Head(orderItems).quantity, g)
       IN  IF rest # 0 THEN rest ELSE own

RECURSIVE Deductions(_, _)
\* the deductions map of handleFinalizeOrder, read at ingredient g
Deductions(orderItems, g) ==
  IF orderItems = << >> THEN 0
  ELSE LET menuItem == FindMenuItem(Head(orderItems).menuItemId)
       IN  (IF menuItem = << >> THEN 0
            ELSE RecipeDeduction(menuItem[1].recipe, Head(orderItems).quantity, g))
           + Deductions(Tail(orderItems), g)

\* orderItem.inventoryDeducted = true, on the handler's own copies
MarkDeducted(orderItems) ==
  [i \in 1..Len(orderItems) |-> [orderItems[i] EXCEPT !.inventoryDeducted = TRUE]]

\* The button disabled while loading only.
PayDisabledLoading(t, pm, tendered, total) == pc[t] # "idle"

\* disabled={loading || (paymentMethod === 'cash' && (tenderedAmount === '' ||
\*           tenderedAmount < total))}; tendered is << >> for ''
PayDisabled(t, pm, tendered, total) ==
  pc[t] # "idle" \/ (pm = "cash" /\ (tendered = << >> \/ tendered[1] < total))

\* amounts the cashier can enter for a given total
TenderChoices(total) == {<< >>, << total >>, << total - 1000 >>, << total + 1000 >>}

\* handleFinalizeOrder up to batch.commit()
PosFinalizeOrder(t, pm, tendered) ==
  LET m == modal[t]
      orderItems == MarkDeducted(PosOrderItems(m.cart, TRUE))
      subtotal == CartSubtotal(m.cart)
      appliedTaxes == AppliedTaxes(subtotal)
      total == subtotal + TaxAmount(appliedTaxes)
      decrements == [g \in Ingredients |-> Deductions(orderItems, g)]
  IN  /\ m.open = "pos"
      /\ ~PayDisabled(t, pm, tendered, total)
      /\ ~(m.cart = << >> \/ (m.type = "takeaway" /\ m.identifier = ""))
      /\ Click
      /\ IF m.orderIds # << >>
         THEN StartHandler(t, "fin_commit",
                [NoLoc EXCEPT
                   !.orderItems = orderItems,
                   !.batch = [EmptyBatch EXCEPT
                      !.decrements = decrements,
                      !.updates = [i \in 1..Len(m.orderIds) |->
                                     [id |-> m.orderIds[i],
                                      fields |-> [status |-> "Completed",
                                                  paymentMethod |-> pm]]],
                      !.plan = IF m.tableNumber # ""
                               THEN << TablesWithLabel(floorPlan, m.tableNumber,
                                                       "needs_cleaning") >>
                               ELSE << >>]])
         ELSE /\ Len(orders) + CreatesInFlight < MaxOrders
              /\ StartHandler(t, "fin_commit",
                   [NoLoc EXCEPT
                      !.orderItems = orderItems,
                      !.batch = [EmptyBatch EXCEPT
                         !.decrements = decrements,
                         !.creates = << NewOrderData(orderItems, m.identifier, m.type,
                                          subtotal, appliedTaxes, "Completed", pm) >>]])

PosFinalizeCommit(t) == pc[t] = "fin_commit" /\ Commit(t, "finalize", TRUE)

\* ------------------------------------------- RapidOrderModal: submit
\* existing order + cart -> the fields handleSubmitOrder writes
RapidAppendFields(existingOrder, orderItems) ==
  LET combinedItems == existingOrder.items \o orderItems
      newSubtotal == ItemsSubtotal(combinedItems)
      newAppliedTaxes == RapidAppliedTaxes(newSubtotal)
      newTaxAmount == TaxAmount(newAppliedTaxes)
  IN  [items |-> combinedItems, subtotal |-> newSubtotal,
       taxes |-> newAppliedTaxes, taxAmount |-> newTaxAmount,
       total |-> newSubtotal + newTaxAmount + existingOrder.tip]

\* handleSubmitOrder up to updateDoc() (orderIdToAppend is set)
RapidSubmitOrder(t, pm, tendered) ==
  LET m == modal[t]
      orderItems == RapidOrderItems(m.cart)
      subtotal == CartSubtotal(m.cart)
      total == subtotal + TaxAmount(RapidAppliedTaxes(subtotal))
      existingOrder == orders[m.orderIds[1]]
  IN  /\ m.open = "rapid"
      /\ ~PayDisabled(t, pm, tendered, total)
      /\ ~(m.cart = << >> \/ (m.type = "takeaway" /\ m.identifier = ""))
      /\ Click
      /\ Len(existingOrder.items) + Len(orderItems) <= MaxItems
      /\ StartHandler(t, "rapid_commit",
           [NoLoc EXCEPT
              !.reads = {existingOrder.id},
              !.docs = << existingOrder >>,
              !.orderItems = orderItems,
              !.batch = [EmptyBatch EXCEPT !.updates =
                 << [id |-> existingOrder.id,
                     fields |-> RapidAppendFields(existingOrder, orderItems)] >>]])

RapidSubmitCommit(t) == pc[t] = "rapid_commit" /\ Commit(t, "append", TRUE)

\* ------------------------------------------------------ kitchen display
\* the rule with the 'New' case dropped: the status is kept unless all is done
KitchenStatusKept(items, status) ==
  IF \A i \in 1..Len(items) : items[i].isCompleted THEN "Ready" ELSE status

\* allItemsDone ? 'Ready' : status === 'New' ? 'In Progress' : status
KitchenStatus(items, status) ==
  IF \A i \in 1..Len(items) : items[i].isCompleted THEN "Ready"
  ELSE IF status = "New" THEN "In Progress" ELSE status

\* names.join(', '), a string being the sequence of its pieces
RECURSIVE JoinNames(_)
JoinNames(names) ==
  IF names = << >> THEN << >>
  ELSE IF Len(names) = 1 THEN << names[1] >>
       ELSE << Head(names), ", " >> \o JoinNames(Tail(names))

\* selectedModifiers?.map(m => m.optionName).sort().join(', ') || 'none'
KdsModifiersString(mods) ==
  LET joined == JoinNames(ModifiersString(mods))
  IN  IF joined = << >> THEN << "none" >> ELSE joined

\* `${item.menuItemId}-${modifiersString}`
UniqueKey(item) == << item.menuItemId, "-" >> \o KdsModifiersString(item.selectedModifiers)

\* itemStationMap.get(item.menuItemId)?.stationName
StationName(menuItemId) ==
  LET mi == FindMenuItem(menuItemId)
  IN  IF mi = << >> THEN Undefined ELSE mi[1].stationName

\* itemSummaries: the occurrences one order contributes under the selected
\* station
OrderOccurrences(order) ==
  SelectSeq([i \in 1..Len(order.items) |->
               [orderId |-> order.id, itemIndex |-> i,
                menuItemId |-> order.items[i].menuItemId,
                uniqueKey |-> UniqueKey(order.items[i]),
                quantity |-> order.items[i].quantity,
                isCompleted |-> order.items[i].isCompleted]],
            LAMBDA occ :
              /\ ~occ.isCompleted
              /\ ~(selectedStation # "all"
                     /\ StationName(occ.menuItemId) # selectedStation))

RECURSIVE Occurrences(_)
\* itemSummaries: all occurrences of the subscribed orders, in order
Occurrences(os) ==
  IF os = << >> THEN << >> ELSE OrderOccurrences(Head(os)) \o Occurrences(Tail(os))

\* summary.individualOrders of the group with that key
IndividualOrders(os, uniqueKey) ==
  SelectSeq(Occurrences(os), LAMBDA occ : occ.uniqueKey = uniqueKey)

RECURSIVE Distinct(_)
\* new Set(ids), in insertion order
Distinct(ids) ==
  IF ids = << >> THEN << >>
  ELSE << Head(ids) >> \o Distinct(SelectSeq(Tail(ids), LAMBDA x : x # Head(ids)))

\* items with item k completed
CompleteItem(items, k) == [items EXCEPT ![k].isCompleted = TRUE]

\* handleCompleteIndividual(orderId, itemIndex) up to updateDoc(); an index
\* beyond the document's items throws and ends the handler
CompleteIndividual(t, n) ==
  /\ modal[t].open = "none"
  /\ pc[t] = "idle"
  /\ n \in 1..Len(Occurrences(KdsOrders(orders)))
  /\ Click
  /\ LET occ == Occurrences(KdsOrders(orders))[n]
         orderData == orders[occ.orderId]
     IN  IF occ.itemIndex > Len(orderData.items)
         THEN UNCHANGED << orders, floorPlan, stock, modal,
                           pc, loc >>
         ELSE LET updatedItems == CompleteItem(orderData.items, occ.itemIndex)
              IN  StartHandler(t, "ci_write",
                    [NoLoc EXCEPT
                       !.reads = {occ.orderId},
                       !.targets = << occ >>,
                       !.docs = << orderData >>,
                       !.batch = [EmptyBatch EXCEPT !.updates =
                          << [id |-> occ.orderId,
                              fields |-> [items |-> updatedItems,
                                          status |-> KitchenStatus(updatedItems,
                                                       orderData.status)]] >>]])

CompleteIndividualWrite(t) == pc[t] = "ci_write" /\ Commit(t, "complete", FALSE)

RECURSIVE MarkTargets(_, _)
\* summary.individualOrders.forEach: mark the occurrences on one read order
MarkTargets(orderData, targets) ==
  IF targets = << >> THEN orderData
  ELSE MarkTargets(IF Head(targets).orderId = orderData.id
                   THEN [orderData EXCEPT !.items = CompleteItem(@, Head(targets).itemIndex)]
                   ELSE orderData,
                   Tail(targets))

\* an occurrence whose index lies beyond its read order's items: TypeError
TargetsInRange(docs, targets) ==
  \A i \in 1..Len(targets) : \A j \in 1..Len(docs) :
     docs[j].id = targets[i].orderId => targets[i].itemIndex <= Len(docs[j].items)

\* the batch handleBumpAll builds from the orders it read
BumpBatch(docs, targets) ==
  [EmptyBatch EXCEPT !.updates =
     [j \in 1..Len(docs) |->
        LET orderData == MarkTargets(docs[j], targets)
        IN  [id |-> orderData.id,
             fields |-> [items |-> orderData.items,
                         status |-> KitchenStatus(orderData.items, orderData.status)]]]]

\* after a getDoc of handleBumpAll: read on, build the batch, or throw
BumpAfterRead(t, targets, toRead, docs) ==
  IF toRead # << >>
  THEN StartHandler(t, "bump_read",
         [NoLoc EXCEPT !.targets = targets, !.toRead = toRead, !.docs = docs,
                       !.raced = loc[t].raced,
                       !.reads = {docs[j].id : j \in 1..Len(docs)}])
  ELSE IF TargetsInRange(docs, targets)
       THEN StartHandler(t, "bump_commit",
              [NoLoc EXCEPT !.targets = targets, !.docs = docs,
                            !.raced = loc[t].raced,
                            !.reads = {docs[j].id : j \in 1..Len(docs)},
                            !.batch = BumpBatch(docs, targets)])
       ELSE StartHandler(t, "idle", NoLoc)

\* handleBumpAll(summary): the click and the first getDoc
BumpAll(t, n) ==
  /\ modal[t].open = "none"
  /\ pc[t] = "idle"
  /\ n \in 1..Len(Occurrences(KdsOrders(orders)))
  /\ Click
  /\ LET os == KdsOrders(orders)
         targets == IndividualOrders(os, Occurrences(os)[n].uniqueKey)
         ids == Distinct([i \in 1..Len(targets) |-> targets[i].orderId])
     IN  \* a summary is clicked once, at its first occurrence
         /\ \A k \in 1..(n - 1) : Occurrences(os)[k].uniqueKey # Occurrences(os)[n].uniqueKey
         /\ BumpAfterRead(t, targets, Tail(ids), << orders[Head(ids)] >>)

\* handleBumpAll: the next getDoc of the loop
BumpAllRead(t) ==
  /\ pc[t] = "bump_read"
  /\ BumpAfterRead(t, loc[t].targets, Tail(loc[t].toRead),
                   Append(loc[t].docs, orders[Head(loc[t].toRead)]))
  /\ last' = NoLast
  /\ SettingsKept
  /\ UNCHANGED opsLeft

BumpAllCommit(t) == pc[t] = "bump_commit" /\ Commit(t, "complete", FALSE)

\* --------------------------------------------- customer-facing ordering
\* What a customer order may carry besides its items (tip, platform fee,
\* discounts); staff orders carry none of them.
CustomerExtras ==
  { [tip |-> 500, platformFee |-> 100, appliedDiscounts |-> << [amount |-> 200] >>] }

\* What a customer may order: one dish, or one of each.
CustomerBaskets == { << 1 >>, << 2 >>, << 1, 2 >> }

\* The order document a customer at table k creates for the menu items ms.
CustomerOrder(ms, k, extra) ==
  LET items == [i \in 1..Len(ms) |->
                  [menuItemId |-> MenuItems[ms[i]].id, price |-> MenuItems[ms[i]].price,
                   quantity |-> 1, selectedModifiers |-> << >>, isCompleted |-> FALSE,
                   notes |-> Undefined, inventoryDeducted |-> FALSE]]
      subtotal == ItemsSubtotal(items)
      taxes == AppliedTaxes(subtotal)
      base == NewOrderData(items, InitTables[k].label, "dine-in", subtotal, taxes,
                           "New", Undefined)
      discounts == SumSeq([i \in 1..Len(extra.appliedDiscounts) |->
                             extra.appliedDiscounts[i].amount])
  IN  UpdateDoc(base,
        [tip |-> extra.tip, platformFee |-> extra.platformFee,
         appliedDiscounts |-> extra.appliedDiscounts,
         total |-> subtotal - discounts + TaxAmount(taxes)
                   + extra.tip + extra.platformFee])

\* A customer at table k places an order of the menu items ms.
CustomerPlaceOrder(ms, k, extra) ==
  /\ Len(orders) + CreatesInFlight < MaxOrders
  /\ Click
  /\ orders' = AddDocs(orders, << CustomerOrder(ms, k, extra) >>)
  /\ UNCHANGED << floorPlan, stock, modal, pc, loc >>

\* The store the terminals find when they start: no order yet, or one open
\* order a customer has placed at the first table.
InitOrders ==
  { << >> } \cup
  { AddDocs(<< >>, << CustomerOrder(<< 1 >>, 1, extra) >>) : extra \in CustomerExtras }

Init ==
  /\ taxDocs = Taxes
  /\ selectedStation = "all"
  /\ access = NoAccess
  /\ subs = NoSubs
  /\ timer = NoTimer
  /\ profile = [appliedTaxIds |-> AppliedTaxIds]
  /\ orders \in InitOrders
  /\ floorPlan = InitTables
  /\ stock = InitStock
  /\ modal = [t \in Term |-> NoModal]
  /\ pc = [t \in Term |-> "idle"]
  /\ loc = [t \in Term |-> NoLoc]
  /\ opsLeft = MaxOps
  /\ last = NoLast

Next ==
  \/ \E t \in Term, k \in 1..Len(InitTables) : FloorSelectTable(t, k)
  \/ \E t \in Term, i \in 1..MaxOrders : ExpoProceedToPayment(t, i)
  \/ \E t \in Term, name \in CustomerNames : PosOpenTakeaway(t, name)
  \/ \E t \in Term, i \in 1..MaxOrders : RapidOpenAppend(t, i)
  \/ \E t \in Term : PosRehydrate(t)
  \/ \E t \in Term, m \in 1..Len(MenuItems) : SelectItem(t, m)
  \/ \E t \in Term, k \in 1..MaxCartLines, change \in {1, -1} : ChangeQuantity(t, k, change)
  \/ \E t \in Term : PosSendToKitchen(t)
  \/ \E t \in Term : PosSendCommit(t)
  \/ \E t \in Term, pm \in PaymentMethods :
       \E tendered \in TenderChoices(CartSubtotal(modal[t].cart)
                        + TaxAmount(AppliedTaxes(CartSubtotal(modal[t].cart)))) :
          PosFinalizeOrder(t, pm, tendered)
  \/ \E t \in Term : PosFinalizeCommit(t)
  \/ \E t \in Term, pm \in PaymentMethods :
       \E tendered \in TenderChoices(CartSubtotal(modal[t].cart)
                        + TaxAmount(RapidAppliedTaxes(CartSubtotal(modal[t].cart)))) :
          RapidSubmitOrder(t, pm, tendered)
  \/ \E t \in Term : RapidSubmitCommit(t)
  \/ \E t \in Term, n \in 1..(MaxOrders * MaxItems) : CompleteIndividual(t, n)
  \/ \E t \in Term : CompleteIndividualWrite(t)
  \/ \E t \in Term, n \in 1..(MaxOrders * MaxItems) : BumpAll(t, n)
  \/ \E t \in Term : BumpAllRead(t)
  \/ \E t \in Term : BumpAllCommit(t)
  \/ \E t \in Term : CommitFails(t)
  \/ \E ms \in CustomerBaskets, k \in 1..Len(InitTables), extra \in CustomerExtras :
       CustomerPlaceOrder(ms, k, extra)

Spec == Init /\ [][Next]_vars

\* ================================================================ claims
\* A commit attempt of kind k by terminal t is the step being taken.
Committed(t, k) == pc[t] = k /\ last'.kind = k /\ last'.t = t /\ last'.ok

\* C1: when handleCompleteIndividual's write commits, the written order has
\* the chosen item completed, and its status is Ready if all its items are
\* then completed, else In Progress if the order as read was New, else the
\* status as read.
C1_CompleteIndividualRule ==
  [][\A t \in Term :
       Committed(t, "ci_write") =>
         LET occ == loc[t].targets[1]
             read == loc[t].docs[1]
             after == orders'[occ.orderId]
         IN  /\ after.items[occ.itemIndex].isCompleted
             /\ after.status =
                  IF \A j \in 1..Len(after.items) : after.items[j].isCompleted
                  THEN "Ready"
                  ELSE IF read.status = "New" THEN "In Progress" ELSE read.status]_vars

\* C1 witness: a single-item completion committed on a New order with another
\* item outstanding, which is now In Progress.
C1_Witness ==
  /\ last.kind = "ci_write" /\ last.ok
  /\ LET o == last.batch.updates[1].id
     IN  /\ orders[o].status = "In Progress"
         /\ \E j \in 1..Len(orders[o].items) : orders[o].items[j].isCompleted
         /\ \E j \in 1..Len(orders[o].items) : ~orders[o].items[j].isCompleted

\* C2: a bump-all either leaves every affected order with the group's items
\* completed and its status recomputed by the completion rule (commit), or
\* leaves every affected order as it was (failed commit).
C2_BumpAllAtomic ==
  [][\A t \in Term :
       (pc[t] = "bump_commit" /\ last'.kind = "bump_commit" /\ last'.t = t) =>
         LET targets == loc[t].targets
             docs == loc[t].docs
         IN  \/ /\ last'.ok
                /\ \A i \in 1..Len(targets) :
                     orders'[targets[i].orderId].items[targets[i].itemIndex].isCompleted
                /\ \A j \in 1..Len(docs) :
                     LET after == orders'[docs[j].id]
                     IN  after.status =
                           IF \A k \in 1..Len(after.items) : after.items[k].isCompleted
                           THEN "Ready"
                           ELSE IF docs[j].status = "New" THEN "In Progress"
                                ELSE docs[j].status
             \/ /\ ~last'.ok
                /\ \A j \in 1..Len(docs) : orders'[docs[j].id] = orders[docs[j].id]]_vars

\* C2 witness: a bump-all over a group spanning two orders has committed.
C2_Witness ==
  /\ last.kind = "bump_commit" /\ last.ok
  /\ Cardinality(UpdatedOrders(last.batch)) >= 2
  /\ \A o \in UpdatedOrders(last.batch) :
       \E k \in 1..Len(orders[o].items) : orders[o].items[k].isCompleted

\* C3: when a single-item completion commits after another terminal's
\* completion of the same order committed in between its read and its write,
\* the order holds both completions: every item completed before the write
\* is still completed, and the status follows the rule for all of them.
C3_NoLostCompletion ==
  [][\A t \in Term :
       (Committed(t, "ci_write") /\ loc[t].raced = {"complete"}) =>
         LET occ == loc[t].targets[1]
             before == orders[occ.orderId]
             after == orders'[occ.orderId]
         IN  /\ after.items = CompleteItem(before.items, occ.itemIndex)
             /\ after.status =
                  IF \A j \in 1..Len(after.items) : after.items[j].isCompleted
                  THEN "Ready"
                  ELSE IF before.status = "New" THEN "In Progress"
                       ELSE before.status]_vars

\* An append (POS send to an existing order, or a rapid-order append) by
\* terminal t is the step being taken.
AppendCommitted(t) ==
  /\ Committed(t, "send_commit") \/ Committed(t, "rapid_commit")
  /\ loc[t].batch.updates # << >>

\* C4: when an append commits after another terminal's append to the same
\* order committed in between its read and its write, the order holds the
\* items it had plus the appended batch, and its subtotal, taxAmount and
\* total are those of the combined items.
C4_ConcurrentAppendsKept ==
  [][\A t \in Term :
       (AppendCommitted(t) /\ loc[t].raced = {"append"}) =>
         LET o == loc[t].batch.updates[1].id
             before == orders[o]
             after == orders'[o]
             combined == before.items \o loc[t].orderItems
         IN  /\ after.items = combined
             /\ after.subtotal = ItemsSubtotal(combined)
             /\ after.taxAmount = TaxAmount(AppliedTaxes(ItemsSubtotal(combined)))
             /\ after.total = after.subtotal + after.taxAmount + before.tip]_vars

\* C5: an order whose status is Completed keeps that status in every step.
C5_CompletedIsTerminal ==
  [][\A o \in 1..Len(orders) :
       orders[o].status = "Completed" => orders'[o].status = "Completed"]_vars

\* C6: every stored order has
\* total = subtotal - sum of discount amounts + taxAmount + tip + platformFee.
C6_TotalInvariant ==
  \A o \in 1..Len(orders) :
    orders[o].total = orders[o].subtotal - DiscountSum(orders[o])
                      + orders[o].taxAmount + orders[o].tip + orders[o].platformFee

\* C7: a finalization of orders that have all been finalized before changes
\* no ingredient's stock.
C7_DeductedAtMostOnce ==
  [][\A t \in Term :
       ( /\ Committed(t, "fin_commit")
         /\ loc[t].batch.updates # << >>
         /\ \A i \in 1..Len(loc[t].batch.updates) :
              orders[loc[t].batch.updates[i].id].status = "Completed" )
       => stock' = stock]_vars

\* the quantity of ingredient g one unit of menu item id takes
RecipeQuantity(id, g) ==
  LET found == SelectSeq(MenuItems, LAMBDA mi : mi.id = id)
  IN  IF found = << >> THEN 0
      ELSE SumSeq([r \in 1..Len(found[1].recipe) |->
                     IF found[1].recipe[r].ingredientId = g
                     THEN found[1].recipe[r].quantity ELSE 0])

\* C8: a committed finalization lowers each ingredient's stock by the sum,
\* over the finalized items, of recipe quantity times item quantity, whatever
\* the stock was (the result may be negative); a new order is stored with
\* those items.
C8_StockDecrement ==
  [][\A t \in Term :
       Committed(t, "fin_commit") =>
         LET items == loc[t].orderItems
         IN  /\ \A g \in Ingredients :
                  stock'[g] = stock[g]
                              - SumSeq([i \in 1..Len(items) |->
                                          items[i].quantity
                                          * RecipeQuantity(items[i].menuItemId, g)])
             /\ loc[t].batch.creates # << >> =>
                  orders'[Len(orders')].items = items]_vars

\* C8 witness: a finalization of an item of quantity 2 has committed and has
\* driven the stock of both ingredients below zero.
C8_Witness ==
  /\ last.kind = "fin_commit" /\ last.ok
  /\ last.batch.creates # << >>
  /\ \E i \in 1..Len(last.batch.creates[1].items) :
       last.batch.creates[1].items[i].quantity = 2
  /\ \A g \in Ingredients : stock[g] < 0 /\ last.batch.decrements[g] > InitStock[g]

\* C9: after a committed finalization every finalized order, new or existing
\* (New, In Progress or Ready), has status Completed, the chosen payment
\* method, and every item completed and marked inventoryDeducted.
C9_FinalizedOrderState ==
  [][\A t \in Term :
       Committed(t, "fin_commit") =>
         LET b == loc[t].batch
             existing == { b.updates[i].id : i \in 1..Len(b.updates) }
             open == { o \in existing :
                         orders[o].status \in {"New", "In Progress", "Ready"} }
             created == (Len(orders) + 1)..(Len(orders) + Len(b.creates))
         IN  \A o \in open \cup created :
               /\ orders'[o].status = "Completed"
               /\ orders'[o].paymentMethod \in PaymentMethods
               /\ \A j \in 1..Len(orders'[o].items) :
                    /\ orders'[o].items[j].isCompleted
                    /\ orders'[o].items[j].inventoryDeducted]_vars

\* the step is a staff member clearing table k from the floor plan
ClearsTable(k) ==
  /\ opsLeft' = opsLeft - 1
  /\ last' = NoLast
  /\ SettingsKept
  /\ floorPlan' = TablesWithId(floorPlan, floorPlan[k].id, "available")
  /\ UNCHANGED << orders, stock, modal, pc, loc >>

\* C10: after a committed finalization of a dine-in order whose table is on
\* the floor plan, the table's stored status is needs_cleaning and so is its
\* derived status; a stored needs_cleaning stays until staff clear the table.
C10_NeedsCleaning ==
  [][\A k \in 1..Len(floorPlan) :
       /\ \A t \in Term :
            ( /\ Committed(t, "fin_commit")
              /\ modal[t].type = "dine-in"
              /\ modal[t].tableNumber = floorPlan[k].label )
            => /\ floorPlan'[k].status = "needs_cleaning"
               /\ DerivedStatus(floorPlan'[k], TableOrders(floorPlan'[k], orders'))
                    = "needs_cleaning"
       /\ (floorPlan[k].status = "needs_cleaning"
           /\ floorPlan'[k].status # "needs_cleaning") => ClearsTable(k)]_vars

\* the open orders of table k, other than those in ids, after the step
OpenSiblings(k, ids) ==
  { o \in 1..Len(orders') :
      /\ o \notin ids
      /\ orders'[o].status \in {"Pending", "New", "In Progress", "Ready"}
      /\ orders'[o].orderType # "takeaway"
      /\ ToUpperCase(orders'[o].plateNumber) = ToUpperCase(floorPlan[k].label) }

\* C11: when a finalization of existing orders commits while another order
\* of the same table is still open, that other order is left as it was, the
\* stock goes down by what the finalized orders' own items take, and the
\* table's stored status is not moved to needs_cleaning.
C11_SiblingOrderKeepsTable ==
  [][\A t \in Term : \A k \in 1..Len(floorPlan) :
       ( /\ Committed(t, "fin_commit")
         /\ loc[t].batch.updates # << >>
         /\ modal[t].tableNumber = floorPlan[k].label
         /\ OpenSiblings(k, UpdatedOrders(loc[t].batch)) # {} )
       => /\ \A o \in OpenSiblings(k, UpdatedOrders(loc[t].batch)) :
               orders'[o] = orders[o]
          /\ (\A i \in 1..Len(loc[t].orderItems) :
                \E o \in UpdatedOrders(loc[t].batch) :
                  \E j \in 1..Len(orders[o].items) :
                    /\ orders[o].items[j].menuItemId = loc[t].orderItems[i].menuItemId
                    /\ orders[o].items[j].quantity = loc[t].orderItems[i].quantity)
             => \A g \in Ingredients :
                  stock[g] - stock'[g]
                    <= SumSeq([o \in 1..Len(orders) |->
                         IF o \in UpdatedOrders(loc[t].batch)
                         THEN SumSeq([j \in 1..Len(orders[o].items) |->
                                orders[o].items[j].quantity
                                * RecipeQuantity(orders[o].items[j].menuItemId, g)])
                         ELSE 0])
          /\ floorPlan'[k].status # "needs_cleaning"]_vars

\* C12: a finalization's commit is all-or-nothing across documents: either
\* every ingredient decrement, every order's status and paymentMethod, the
\* new order and the table update take effect together, or the orders, the
\* stock and the floor plan are all as they were.
C12_FinalizeAtomic ==
  [][\A t \in Term :
       (pc[t] = "fin_commit" /\ last'.kind = "fin_commit" /\ last'.t = t) =>
         LET b == loc[t].batch
         IN  \/ /\ last'.ok
                /\ \A g \in Ingredients : stock'[g] = stock[g] - b.decrements[g]
                /\ \A i \in 1..Len(b.updates) :
                     /\ orders'[b.updates[i].id].status = "Completed"
                     /\ orders'[b.updates[i].id].paymentMethod
                          = b.updates[i].fields.paymentMethod
                /\ Len(orders') = Len(orders) + Len(b.creates)
                /\ \A i \in 1..Len(b.creates) :
                     orders'[Len(orders) + i].status = "Completed"
                /\ b.plan # << >> => floorPlan' = b.plan[1]
             \/ /\ ~last'.ok
                /\ orders' = orders /\ stock' = stock /\ floorPlan' = floorPlan]_vars

\* C12 witness: a finalization that decrements stock, completes an existing
\* order and updates its table has committed.
C12_Witness ==
  /\ last.kind = "fin_commit" /\ last.ok
  /\ last.batch.updates # << >> /\ last.batch.plan # << >>
  /\ \E g \in Ingredients : last.batch.decrements[g] > 0 /\ stock[g] < InitStock[g]
  /\ orders[last.batch.updates[1].id].status = "Completed"
  /\ \E k \in 1..Len(floorPlan) : floorPlan[k].status = "needs_cleaning"

\* ------------------------------------------------------- the floor plan
\* Orders the floor view can be subscribed to: one item each, any status of
\* its query, dine-in or takeaway, the plate number typed in either case.
FloorStatuses == {"Pending", "New", "In Progress", "Ready"}

FloorOrderDocs ==
  { NewOrderData(<< [menuItemId |-> "m1", price |-> 2000, quantity |-> 1,
                     selectedModifiers |-> << >>, isCompleted |-> st = "Ready",
                     notes |-> Undefined, inventoryDeducted |-> FALSE] >>,
                 plate, type, 2000, AppliedTaxes(2000), st, Undefined) :
      plate \in {"T1", "t1"}, type \in {"dine-in", "takeaway"}, st \in FloorStatuses }

\* Items ordered from an earlier menu: m1 when its price was 1500, and an
\* item since deleted from the menu, ordered with one priced modifier.
EarlierItems ==
  { [menuItemId |-> "m1", price |-> 1500, quantity |-> 2,
     selectedModifiers |-> << >>, isCompleted |-> FALSE,
     notes |-> Undefined, inventoryDeducted |-> FALSE],
    [menuItemId |-> "m0", price |-> 2500, quantity |-> 1,
     selectedModifiers |-> << [optionName |-> "cheese", optionPrice |-> 500] >>,
     isCompleted |-> FALSE, notes |-> Undefined, inventoryDeducted |-> FALSE] }

EarlierOrderDocs ==
  { NewOrderData(<< it >>, "T1", "dine-in", it.price * it.quantity,
                 AppliedTaxes(it.price * it.quantity), "New", Undefined) :
      it \in EarlierItems }

\* The manual statuses a stored table record can carry ("none" = unset).
ManualStatuses == {"none", "available", "seated", "needs_cleaning"}

\* The floor view over any store of at most MaxOrders such orders and any
\* manual status of the first table.
FloorInit ==
  /\ taxDocs = Taxes
  /\ selectedStation = "all"
  /\ access = NoAccess
  /\ subs = NoSubs
  /\ timer = NoTimer
  /\ profile = [appliedTaxIds |-> AppliedTaxIds]
  /\ orders \in { AddDocs(<< >>, ds) :
                    ds \in UNION { [1..n -> FloorOrderDocs \cup EarlierOrderDocs] :
                                   n \in 0..MaxOrders } }
  /\ floorPlan \in { [InitTables EXCEPT ![1].status = ms] : ms \in ManualStatuses }
  /\ stock = InitStock
  /\ modal = [t \in Term |-> NoModal]
  /\ pc = [t \in Term |-> "idle"]
  /\ loc = [t \in Term |-> NoLoc]
  /\ opsLeft = MaxOps
  /\ last = NoLast

FloorNext ==
  \/ \E t \in Term, k \in 1..Len(InitTables) : FloorSelectTable(t, k)
  \/ \E t \in Term : PosRehydrate(t)

FloorSpec == FloorInit /\ [][FloorNext]_vars

\* the open orders of table k as the specification defines them
OpenOrdersOf(k) ==
  { o \in 1..Len(orders) :
      /\ orders[o].status \in FloorStatuses
      /\ orders[o].orderType # "takeaway"
      /\ ToUpperCase(orders[o].plateNumber) = ToUpperCase(floorPlan[k].label) }

\* C13: the derived status of every table is the first match of:
\* needs_cleaning if its manual status is needs_cleaning; attention if an
\* open order of the table is Ready; ordered if one is New or In Progress;
\* seated if its manual status is seated; else available.
C13_DerivedStatusPriority ==
  \A k \in 1..Len(floorPlan) :
    DerivedStatus(floorPlan[k], TableOrders(floorPlan[k], orders)) =
      IF floorPlan[k].status = "needs_cleaning" THEN "needs_cleaning"
      ELSE IF \E o \in OpenOrdersOf(k) : orders[o].status = "Ready" THEN "attention"
      ELSE IF \E o \in OpenOrdersOf(k) : orders[o].status \in {"New", "In Progress"}
           THEN "ordered"
      ELSE IF floorPlan[k].status = "seated" THEN "seated"
      ELSE "available"

\* the ids in a sequence of order ids or of orders
IdSet(ids) == { ids[i] : i \in 1..Len(ids) }

\* C14: the orders the floor view attaches to a table are exactly the
\* subscribed orders whose plateNumber equals the label ignoring case and
\* whose type is not takeaway; each of them counts for the derived status,
\* and a ticket opened on the table carries the ids of all of them.
C14_OpenOrdersOfTable ==
  [][\A k \in 1..Len(floorPlan) :
       LET tableOrders == TableOrders(floorPlan[k], orders)
           derived == DerivedStatus(floorPlan[k], tableOrders)
       IN  /\ IdSet([i \in 1..Len(tableOrders) |-> tableOrders[i].id]) = OpenOrdersOf(k)
           /\ Len(tableOrders) = Cardinality(OpenOrdersOf(k))
           /\ floorPlan[k].status # "needs_cleaning" =>
                /\ (\E o \in OpenOrdersOf(k) : orders[o].status = "Ready")
                     => derived = "attention"
                /\ (\E o \in OpenOrdersOf(k) :
                      orders[o].status \in {"New", "In Progress"})
                     => derived \in {"attention", "ordered"}
           /\ \A t \in Term :
                ( /\ modal[t].open = "none" /\ modal'[t].open = "pos"
                  /\ modal'[t].type = "dine-in"
                  /\ modal'[t].tableNumber = floorPlan[k].label )
                => /\ IdSet(modal'[t].orderIds) = OpenOrdersOf(k)
                   /\ Len(modal'[t].orderIds) = Cardinality(OpenOrdersOf(k))
                   /\ floorPlan' = floorPlan /\ orders' = orders]_vars

\* C14 witness: a ticket opened on a table carries two orders, one of them
\* stored with the plate number in lower case.
C14_Witness ==
  \E t \in Term :
    /\ modal[t].open = "pos" /\ modal[t].tableNumber = "T1"
    /\ Len(modal[t].orderIds) = 2
    /\ \E i \in 1..2 : orders[modal[t].orderIds[i]].plateNumber = "t1"
    /\ \E i \in 1..2 : orders[modal[t].orderIds[i]].status = "Pending"

\* C15: the status stored on every floor-plan table is available, seated,
\* needs_cleaning or unset; ordered and attention are never stored.
C15_StoredStatusManual ==
  \A k \in 1..Len(floorPlan) : floorPlan[k].status \in ManualStatuses

\* the step opens a dine-in ticket on table k at terminal t
OpensTicket(t, k) ==
  /\ modal[t].open = "none" /\ modal'[t].open = "pos"
  /\ modal'[t].type = "dine-in"
  /\ modal'[t].tableNumber = floorPlan[k].label

\* C16: selecting a table whose derived status is needs_cleaning sets its
\* stored status to available, changes no other table and opens no ticket;
\* selecting a table in any other status opens the ticket with the ids of
\* all its open orders and writes nothing.
C16_SelectTable ==
  [][\A k \in 1..Len(floorPlan) :
       LET derived == DerivedStatus(floorPlan[k], TableOrders(floorPlan[k], orders))
       IN  /\ derived = "needs_cleaning" =>
                /\ \A t \in Term : ~OpensTicket(t, k)
                /\ floorPlan' # floorPlan =>
                     /\ floorPlan'[k].status = "available"
                     /\ \A j \in 1..Len(floorPlan) :
                          j # k => floorPlan'[j] = floorPlan[j]
                     /\ modal' = modal /\ orders' = orders /\ stock' = stock
           /\ derived # "needs_cleaning" =>
                /\ floorPlan'[k] = floorPlan[k]
                /\ \A t \in Term :
                     OpensTicket(t, k) =>
                       /\ IdSet(modal'[t].orderIds) = OpenOrdersOf(k)
                       /\ modal'[t].cart = << >>
                       /\ floorPlan' = floorPlan /\ orders' = orders
                       /\ stock' = stock]_vars

\* C16 witness: with orders in the store and no ticket open, a selection
\* has been made and the first table is stored as available: it was cleared.
C16_Witness ==
  /\ opsLeft < MaxOps
  /\ \A t \in Term : modal[t].open = "none"
  /\ floorPlan[1].status = "available"
  /\ OpenOrdersOf(1) # {}

\* two cart lines are the same item: menu item, set of modifier names, note
SameItem(a, b) ==
  /\ a.id = b.id
  /\ { a.selectedModifiers[i].optionName : i \in 1..Len(a.selectedModifiers) }
       = { b.selectedModifiers[i].optionName : i \in 1..Len(b.selectedModifiers) }
  /\ a.notes = b.notes

\* C17: adding an item to a cart appends a new line only when the cart had
\* no line with the same menu item, modifiers and note; otherwise the
\* quantity is added to that line and the cart keeps its number of lines.
C17_AddMerges ==
  [][\A t \in Term :
       ( /\ modal[t].open # "none" /\ modal'[t].open = modal[t].open
         /\ modal'[t].pending = modal[t].pending
         /\ Len(modal'[t].cart) = Len(modal[t].cart) + 1 )
       => \A i \in 1..Len(modal[t].cart) :
            ~SameItem(modal[t].cart[i], modal'[t].cart[Len(modal'[t].cart)])]_vars

\* C18: after a re-hydration the ticket's cart has no two lines with the
\* same menu item, set of modifier names and note, and its total quantity
\* is the total quantity of the items of the ticket's orders.
C18_RehydrationMerges ==
  [][\A t \in Term :
       (modal[t].open = "pos" /\ modal[t].pending /\ ~modal'[t].pending) =>
         LET cart == modal'[t].cart
             docs == DocsIn(orders, modal[t].orderIds)
         IN  /\ \A i, j \in 1..Len(cart) : SameItem(cart[i], cart[j]) => i = j
             /\ SumSeq([i \in 1..Len(cart) |-> cart[i].quantity])
                  = SumSeq([d \in 1..Len(docs) |->
                       SumSeq([j \in 1..Len(docs[d].items) |->
                                 docs[d].items[j].quantity])])]_vars

\* the lines of a ticket's cart that came from its orders' re-hydration
\* (their cartItemId carries the modifier string), and the lines staff added
StoredLines(m) ==
  IF m.open = "rapid" THEN << >>
  ELSE SelectSeq(m.cart, LAMBDA ci : Len(ci.cartItemId) = 3)

AddedLines(m) ==
  IF m.open = "rapid" THEN m.cart
  ELSE SelectSeq(m.cart, LAMBDA ci : Len(ci.cartItemId) = 2)

\* C19: when an append commits, with no other write to the order since it
\* was read and the ticket's re-hydrated lines untouched, the order's items
\* are its previous items unchanged followed by only the lines staff added,
\* each not completed.
C19_AppendAdditive ==
  [][\A t \in Term :
       ( /\ AppendCommitted(t) /\ loc[t].raced = {}
         /\ StoredLines(modal[t])
              = (IF modal[t].open = "rapid" THEN << >>
                 ELSE RehydrateOrders(<< >>, DocsIn(orders, modal[t].orderIds), 0))
         /\ loc[t].orderItems = (IF modal[t].open = "rapid"
                                 THEN RapidOrderItems(modal[t].cart)
                                 ELSE PosOrderItems(modal[t].cart, FALSE)) )
       => LET o == loc[t].batch.updates[1].id
              added == IF modal[t].open = "rapid"
                       THEN RapidOrderItems(AddedLines(modal[t]))
                       ELSE PosOrderItems(AddedLines(modal[t]), FALSE)
          IN  /\ orders'[o].items = orders[o].items \o added
              /\ \A i \in 1..Len(added) : ~added[i].isCompleted]_vars

\* C20: the subtotal priced for a re-hydrated ticket is the sum of its
\* orders' persisted item price times quantity, whatever the menu now says.
C20_PricesLocked ==
  [][\A t \in Term :
       (modal[t].open = "pos" /\ modal[t].pending /\ ~modal'[t].pending) =>
         LET docs == DocsIn(orders, modal[t].orderIds)
         IN  CartSubtotal(modal'[t].cart)
               = SumSeq([d \in 1..Len(docs) |->
                    SumSeq([j \in 1..Len(docs[d].items) |->
                              docs[d].items[j].price * docs[d].items[j].quantity])])]_vars

\* ------------------------------------------------------------- pricing
\* Cart lines as ItemDetailModal / handleSelectItem hand them to the cart:
\* a menu item at its menu price, with or without one priced modifier.
PricedLines ==
  { [cartItemId |-> << mi.id, 1 >>, id |-> mi.id, basePrice |-> mi.price,
     quantity |-> q, selectedModifiers |-> mods, notes |-> Undefined] :
      mi \in { MenuItems[i] : i \in 1..Len(MenuItems) },
      q \in 1..MaxPricedQty,
      mods \in { << >>, << [optionName |-> "cheese", optionPrice |-> 500] >> } }

PricedCarts == UNION { [1..n -> PricedLines] : n \in 1..MaxCartLines }

\* An open dine-in order at the first table on which the customer left a
\* tip, with no platform fee and no discount.
TippedOrder ==
  CustomerOrder(<< 1 >>, 1, [tip |-> 500, platformFee |-> 0,
                             appliedDiscounts |-> << >>])

\* The tickets that are priced: a new takeaway ticket on an empty store, or
\* a POS or rapid-order ticket opened on the tipped order, with any cart.
PricedTickets ==
  { [store |-> << >>,
     ticket |-> [NoModal EXCEPT !.open = "pos", !.identifier = "bob"]],
    [store |-> AddDocs(<< >>, << TippedOrder >>),
     ticket |-> [NoModal EXCEPT !.open = "pos", !.type = "dine-in",
                                !.tableNumber = "T1", !.identifier = "T1",
                                !.orderIds = << 1 >>]],
    [store |-> AddDocs(<< >>, << TippedOrder >>),
     ticket |-> [NoModal EXCEPT !.open = "rapid", !.type = "dine-in",
                                !.tableNumber = "T1", !.identifier = "T1",
                                !.orderIds = << 1 >>]] }

PriceInit ==
  /\ taxDocs = Taxes
  /\ selectedStation = "all"
  /\ access = NoAccess
  /\ subs = NoSubs
  /\ timer = NoTimer
  /\ profile = [appliedTaxIds |-> AppliedTaxIds]
  /\ \E p \in PricedTickets, cart \in PricedCarts :
       /\ orders = p.store
       /\ modal = [t \in Term |-> IF t = 1 THEN [p.ticket EXCEPT !.cart = cart]
                                  ELSE NoModal]
  /\ floorPlan = InitTables
  /\ stock = InitStock
  /\ pc = [t \in Term |-> "idle"]
  /\ loc = [t \in Term |-> NoLoc]
  /\ opsLeft = MaxOps
  /\ last = NoLast

PriceNext ==
  \/ \E t \in Term : PosSendToKitchen(t)
  \/ \E t \in Term : PosSendCommit(t)
  \/ \E t \in Term, pm \in PaymentMethods :
       \E tendered \in TenderChoices(CartSubtotal(modal[t].cart)
                        + TaxAmount(AppliedTaxes(CartSubtotal(modal[t].cart)))) :
          PosFinalizeOrder(t, pm, tendered)
  \/ \E t \in Term : PosFinalizeCommit(t)
  \/ \E t \in Term, pm \in PaymentMethods :
       \E tendered \in TenderChoices(CartSubtotal(modal[t].cart)
                        + TaxAmount(RapidAppliedTaxes(CartSubtotal(modal[t].cart)))) :
          RapidSubmitOrder(t, pm, tendered)
  \/ \E t \in Term : RapidSubmitCommit(t)
  \/ \E t \in Term : CommitFails(t)
  \/ \E t \in Term, k \in 1..MaxCartLines, note \in Notes : NoteChange(t, k, note)

PriceSpec == PriceInit /\ [][PriceNext]_vars

\* the tenant's tax records whose id is in the applied-tax-id list
TaxesInList ==
  { taxDocs[i] : i \in { j \in 1..Len(taxDocs) :
                         \E a \in 1..Len(profile.appliedTaxIds) :
                            profile.appliedTaxIds[a] = taxDocs[j].id } }

\* a sequence of taxes is exactly TaxesInList, each with its amount of sub
ExactlyTaxesInList(taxes, sub) ==
  /\ Len(taxes) = Cardinality(TaxesInList)
  /\ { taxes[i] : i \in 1..Len(taxes) }
       = { [name |-> x.name, rate |-> x.rate, amount |-> (sub * x.rate) \div 100] :
             x \in TaxesInList }

\* C21: a new order created from a cart is stored with subtotal = sum over
\* the lines of (basePrice + modifier prices) * quantity, with exactly the
\* listed tax records each at subtotal * rate / 100, taxAmount their sum and
\* total = subtotal + taxAmount; both modals' tax computations agree.
C21_Pricing ==
  [][\A t \in Term :
       ( /\ Committed(t, "send_commit") \/ Committed(t, "fin_commit")
         /\ loc[t].batch.creates # << >> )
       => LET cart == modal[t].cart
              new == orders'[Len(orders')]
              sub == SumSeq([i \in 1..Len(cart) |->
                       (cart[i].basePrice
                        + SumSeq([k \in 1..Len(cart[i].selectedModifiers) |->
                                    cart[i].selectedModifiers[k].optionPrice]))
                       * cart[i].quantity])
          IN  /\ new.subtotal = sub
              /\ ExactlyTaxesInList(new.taxes, sub)
              /\ ExactlyTaxesInList(RapidAppliedTaxes(CartSubtotal(cart)), sub)
              /\ new.taxAmount = SumSeq([i \in 1..Len(new.taxes) |-> new.taxes[i].amount])
              /\ new.total = sub + new.taxAmount]_vars

\* C21 witness: one line of base 2.000 with a 0.500 modifier, quantity 3,
\* has been stored as a new order of 7.500 + 0.375 = 7.875.
C21_Witness ==
  /\ last.kind \in {"send_commit", "fin_commit"} /\ last.ok
  /\ Len(orders) = 1
  /\ Len(orders[1].items) = 1 /\ orders[1].items[1].quantity = 3
  /\ orders[1].subtotal = 7500 /\ orders[1].taxAmount = 375
  /\ orders[1].total = 7875

\* C22: after an append the order's taxes are exactly the listed tax
\* records at the new combined subtotal of all its items, taxAmount is their
\* sum, the tip is the order's tip as it was, and for an order without
\* platform fee or discounts the total is subtotal + taxAmount + tip.
C22_AppendRecomputesTax ==
  [][\A t \in Term :
       AppendCommitted(t) =>
         LET o == loc[t].batch.updates[1].id
             before == orders[o]
             after == orders'[o]
             sub == SumSeq([j \in 1..Len(after.items) |->
                              after.items[j].price * after.items[j].quantity])
         IN  /\ after.subtotal = sub
             /\ ExactlyTaxesInList(after.taxes, sub)
             /\ after.taxAmount
                  = SumSeq([i \in 1..Len(after.taxes) |-> after.taxes[i].amount])
             /\ after.tip = before.tip
             /\ (after.platformFee = 0 /\ after.appliedDiscounts = << >>)
                  => after.total = sub + after.taxAmount + before.tip]_vars

\* C22 witness: an append to the tipped order has committed; its tax is 5%
\* of the combined subtotal and its total carries the tip.
C22_Witness ==
  /\ last.kind \in {"send_commit", "rapid_commit"} /\ last.ok
  /\ last.batch.updates # << >>
  /\ Len(orders) = 1 /\ Len(orders[1].items) >= 2
  /\ orders[1].tip = 500 /\ orders[1].platformFee = 0
  /\ orders[1].taxAmount * 100 = orders[1].subtotal * 5
  /\ orders[1].total = orders[1].subtotal + orders[1].taxAmount + 500

\* ============================================================ tax settings
\* What the "Add New Tax" form may hold: a name, or blanks, and a rate.
NewTaxNames == { "Service", " " }

NewTaxRates == { 0, 10 }

\* newTaxName.trim()
Trim(name) == IF name = " " THEN "" ELSE name

\* doc(collection(db, 'taxes')).id: an id no tax document has had
NewTaxId == "svc"

\* The settings page's own click: it writes no order, table or stock.
SettingsClick ==
  /\ opsLeft > 0
  /\ opsLeft' = opsLeft - 1
  /\ last' = NoLast
  /\ UNCHANGED << orders, floorPlan, stock, modal, pc, loc, selectedStation, timer,
                  access, subs >>

\* handleAddTax
AddTax(name, rate) ==
  /\ ~(Trim(name) = "" \/ rate <= 0)
  /\ \A i \in 1..Len(taxDocs) : taxDocs[i].id # NewTaxId
  /\ taxDocs' = Append(taxDocs, [id |-> NewTaxId, name |-> Trim(name), rate |-> rate])
  /\ UNCHANGED profile
  /\ SettingsClick

\* handleSaveAppliedTaxes: setDoc(..., { appliedTaxIds }, { merge: true })
SaveAppliedTaxes(appliedTaxIds) == [profile EXCEPT !.appliedTaxIds = appliedTaxIds]

\* The deletion that also takes the deleted tax out of the stored orders.
DeleteTaxRepricing(k, saved) ==
  /\ k \in 1..Len(taxDocs)
  /\ taxDocs' = SelectSeq(taxDocs, LAMBDA d : d.id # taxDocs[k].id)
  /\ profile' = IF saved
                THEN SaveAppliedTaxes(SelectSeq(profile.appliedTaxIds,
                                                LAMBDA id : id # taxDocs[k].id))
                ELSE profile
  /\ opsLeft > 0
  /\ opsLeft' = opsLeft - 1
  /\ last' = NoLast
  /\ orders' = [o \in 1..Len(orders) |->
                  LET kept == SelectSeq(orders[o].taxes,
                                        LAMBDA x : x.name # taxDocs[k].name)
                  IN  [orders[o] EXCEPT
                         !.taxes = kept,
                         !.taxAmount = TaxAmount(kept),
                         !.total = orders[o].total - orders[o].taxAmount
                                     + TaxAmount(kept)]]
  /\ UNCHANGED << floorPlan, stock, modal, pc, loc, selectedStation, timer,
                  access, subs >>

\* handleDeleteTax (confirmed): the k-th listed tax is deleted, then the
\* applied ids without it are saved, which may fail.
DeleteTax(k, saved) ==
  /\ k \in 1..Len(taxDocs)
  /\ taxDocs' = SelectSeq(taxDocs, LAMBDA d : d.id # taxDocs[k].id)
  /\ profile' = IF saved
                THEN SaveAppliedTaxes(SelectSeq(profile.appliedTaxIds,
                                                LAMBDA id : id # taxDocs[k].id))
                ELSE profile
  /\ SettingsClick

\* handleToggleDefault on the k-th listed tax
ToggleDefault(k) ==
  /\ k \in 1..Len(taxDocs)
  /\ LET taxId == taxDocs[k].id
         currentApplied == profile.appliedTaxIds
         isApplied == \E i \in 1..Len(currentApplied) : currentApplied[i] = taxId
     IN  profile' = SaveAppliedTaxes(
                      IF isApplied
                      THEN SelectSeq(currentApplied, LAMBDA id : id # taxId)
                      ELSE Append(currentApplied, taxId))
  /\ UNCHANGED taxDocs
  /\ SettingsClick

\* The tax documents the list can hold: the initial ones and the added one.
MaxTaxes == Len(Taxes) + 1

\* Orders are sent from the priced tickets while the settings page is used.
TaxNext ==
  \/ \E t \in Term : PosSendToKitchen(t)
  \/ \E t \in Term : PosSendCommit(t)
  \/ \E t \in Term : CommitFails(t)
  \/ \E name \in NewTaxNames, rate \in NewTaxRates : AddTax(name, rate)
  \/ \E k \in 1..MaxTaxes, saved \in BOOLEAN : DeleteTax(k, saved)
  \/ \E k \in 1..MaxTaxes : ToggleDefault(k)

TaxSpec == PriceInit /\ [][TaxNext]_vars

\* A step that changes the tax documents or the applied-tax-id list.
TaxSettingsChange == taxDocs' # taxDocs \/ profile' # profile

\* C23: a step that changes a tax document or the applied-tax-id list keeps
\* every persisted order, and with it its taxes, taxAmount and total.
C23_TaxSettingsKeepOrders ==
  [][TaxSettingsChange =>
       /\ Len(orders') = Len(orders)
       /\ \A o \in 1..Len(orders) :
            /\ orders'[o].taxes = orders[o].taxes
            /\ orders'[o].taxAmount = orders[o].taxAmount
            /\ orders'[o].total = orders[o].total]_vars

\* C23 witness: VAT has been deleted and nothing is applied any more, and
\* the tipped order still carries its VAT 5% snapshot and the total with it.
C23_Witness ==
  /\ \A i \in 1..Len(taxDocs) : taxDocs[i].id # "vat"
  /\ profile.appliedTaxIds = << >>
  /\ Len(orders) >= 1
  /\ orders[1].taxes = << [name |-> "VAT", rate |-> 5, amount |-> 100] >>
  /\ orders[1].taxAmount = 100
  /\ orders[1].total = 2600
  /\ AppliedTaxes(orders[1].subtotal) = << >>

\* ============================================================ cash tender
\* const total = subtotal + taxAmount, in either modal
ModalTotal(m) ==
  LET subtotal == CartSubtotal(m.cart)
  IN  subtotal + TaxAmount(IF m.open = "rapid" THEN RapidAppliedTaxes(subtotal)
                           ELSE AppliedTaxes(subtotal))

\* POSModal: typeof tenderedAmount === 'number' ? tenderedAmount - total : 0
PosChangeDue(tenderedAmount, total) ==
  IF tenderedAmount # << >> THEN tenderedAmount[1] - total ELSE 0

\* RapidOrderModal: (typeof tenderedAmount === 'number' ? tenderedAmount : 0) - total
RapidChangeDue(tenderedAmount, total) ==
  (IF tenderedAmount # << >> THEN tenderedAmount[1] ELSE 0) - total

\* The change line without the comparison with zero.
ShownChangeRaw(changeDue) == changeDue

\* changeDue > 0 ? changeDue.toFixed(3) : '0.000', in thousandths
ShownChange(changeDue) == IF changeDue > 0 THEN changeDue ELSE 0

\* The change line of terminal t's modal.
ChangeLine(t) ==
  LET m == modal[t]
  IN  ShownChange(IF m.open = "rapid"
                  THEN RapidChangeDue(m.tenderedAmount, ModalTotal(m))
                  ELSE PosChangeDue(m.tenderedAmount, ModalTotal(m)))

\* Math.ceil(total / unit) * unit, amounts in thousandths
CeilTo(total, unit) == ((total + unit - 1) \div unit) * unit

\* All three suggestions, equal ones included.
QuickCashAllThree(total) ==
  IF total <= 0 THEN << >>
  ELSE << CeilTo(total, 1000), CeilTo(total, 5000), CeilTo(total, 10000) >>

\* quickCashOptions
QuickCashOptions(total) ==
  IF total <= 0 THEN << >>
  ELSE LET nextWhole == CeilTo(total, 1000)
           next5 == CeilTo(total, 5000)
           next10 == CeilTo(total, 10000)
           options == << nextWhole >>
                        \o (IF next5 > nextWhole THEN << next5 >> ELSE << >>)
                        \o (IF next10 > next5 THEN << next10 >> ELSE << >>)
       IN  SubSeq(options, 1, IF Len(options) < 3 THEN Len(options) ELSE 3)

\* Amounts the cashier may type whatever the total (7.000 is below 7.875).
TypedAmounts == { << 7000 >> }

\* The tendered-amount input and the numpad: an amount is typed or cleared.
SetTenderedAmount(t, amount) ==
  /\ modal[t].open # "none"
  /\ pc[t] = "idle"
  /\ amount \in TenderChoices(ModalTotal(modal[t])) \cup TypedAmounts
  /\ amount # modal[t].tenderedAmount
  /\ modal' = [modal EXCEPT ![t].tenderedAmount = amount]
  /\ last' = NoLast
  /\ SettingsKept
  /\ UNCHANGED << orders, floorPlan, stock, pc, loc, opsLeft >>

\* A quick-cash button: setTenderedAmount(amount)
QuickCash(t, i) ==
  /\ modal[t].open # "none"
  /\ pc[t] = "idle"
  /\ i \in 1..Len(QuickCashOptions(ModalTotal(modal[t])))
  /\ modal' = [modal EXCEPT ![t].tenderedAmount =
                 << QuickCashOptions(ModalTotal(modal[t]))[i] >>]
  /\ last' = NoLast
  /\ SettingsKept
  /\ UNCHANGED << orders, floorPlan, stock, pc, loc, opsLeft >>

\* The priced tickets, and a takeaway ticket whose customer name is not
\* entered.
CashTickets ==
  PricedTickets
    \cup { [store |-> << >>, ticket |-> [NoModal EXCEPT !.open = "pos"]] }

\* The tickets with any priced cart or an empty one, with the tenant's VAT
\* applied or no tax applied.
CashInit ==
  /\ taxDocs = Taxes
  /\ selectedStation = "all"
  /\ access = NoAccess
  /\ subs = NoSubs
  /\ timer = NoTimer
  /\ \E ids \in { AppliedTaxIds, << >> } : profile = [appliedTaxIds |-> ids]
  /\ \E p \in CashTickets, cart \in PricedCarts \cup { << >> } :
       /\ orders = p.store
       /\ modal = [t \in Term |-> IF t = 1 THEN [p.ticket EXCEPT !.cart = cart]
                                  ELSE NoModal]
  /\ floorPlan = InitTables
  /\ stock = InitStock
  /\ pc = [t \in Term |-> "idle"]
  /\ loc = [t \in Term |-> NoLoc]
  /\ opsLeft = MaxOps
  /\ last = NoLast

CashNext ==
  \/ \E t \in Term, i \in 1..3 : QuickCash(t, i)
  \/ \E t \in Term, total \in { ModalTotal(modal[u]) : u \in Term } :
       \E amount \in TenderChoices(total) \cup TypedAmounts :
          SetTenderedAmount(t, amount)
  \/ \E t \in Term : PosSendToKitchen(t)
  \/ \E t \in Term : PosSendCommit(t)
  \/ \E t \in Term, pm \in PaymentMethods :
       PosFinalizeOrder(t, pm, modal[t].tenderedAmount)
  \/ \E t \in Term : PosFinalizeCommit(t)
  \/ \E t \in Term, pm \in PaymentMethods :
       RapidSubmitOrder(t, pm, modal[t].tenderedAmount)
  \/ \E t \in Term : RapidSubmitCommit(t)
  \/ \E t \in Term : CommitFails(t)

CashSpec == CashInit /\ [][CashNext]_vars

\* C24: the change line of an open modal shows tendered - total when an
\* amount is entered and is at least the total, and 0 when the amount is
\* below the total or none is entered.
C24_ChangeDueClamped ==
  \A t \in Term :
    modal[t].open # "none" =>
      LET tendered == modal[t].tenderedAmount
          total == ModalTotal(modal[t])
      IN  ChangeLine(t) = IF tendered # << >> /\ tendered[1] >= total
                          THEN tendered[1] - total
                          ELSE 0

\* C24 witness: total 7.875 with 10.000 tendered shows 2.125.
C24_Witness ==
  \E t \in Term :
    /\ modal[t].open = "pos"
    /\ ModalTotal(modal[t]) = 7875
    /\ modal[t].tenderedAmount = << 10000 >>
    /\ ChangeLine(t) = 2125

\* C24 witness: total 7.875 with 7.000 tendered shows 0.000, in the rapid
\* modal as in the POS modal.
C24_WitnessShort ==
  \E t \in Term :
    /\ modal[t].open = "rapid"
    /\ ModalTotal(modal[t]) = 7875
    /\ modal[t].tenderedAmount = << 7000 >>
    /\ ChangeLine(t) = 0

\* The least multiple of unit that is at least total.
LeastMultiple(total, unit) ==
  CHOOSE m \in { k * unit : k \in 0..(total \div unit + 1) } :
    /\ m >= total
    /\ m - unit < total

\* C25: for a total above 0 the quick-cash suggestions are the ceilings of
\* the total to the next whole unit, multiple of 5 and multiple of 10, each
\* once, ascending, at most 3, and none below the total.
C25_QuickCash ==
  \A t \in Term :
    (modal[t].open # "none" /\ ModalTotal(modal[t]) > 0) =>
      LET total == ModalTotal(modal[t])
          options == QuickCashOptions(total)
      IN  /\ { options[i] : i \in 1..Len(options) }
               = { LeastMultiple(total, 1000), LeastMultiple(total, 5000),
                   LeastMultiple(total, 10000) }
          /\ \A i \in 1..(Len(options) - 1) : options[i] < options[i + 1]
          /\ Len(options) <= 3
          /\ \A i \in 1..Len(options) : options[i] >= total

\* C25 witness: with no tax applied a total of 5.000 suggests 5.000 and
\* 10.000 only, and the second suggestion has been taken.
C25_Witness ==
  \E t \in Term :
    /\ modal[t].open # "none"
    /\ ModalTotal(modal[t]) = 5000
    /\ QuickCashOptions(5000) = << 5000, 10000 >>
    /\ modal[t].tenderedAmount = << 10000 >>

\* ========================================================== kitchen queue
\* The station selector's values: all stations, or one of the profile's.
Stations == { "all", "grill", "bar" }

\* onChange={e => setSelectedStation(e.target.value)}
SelectStation(station) ==
  /\ station # selectedStation
  /\ selectedStation' = station
  /\ opsLeft > 0
  /\ opsLeft' = opsLeft - 1
  /\ last' = NoLast
  /\ UNCHANGED << orders, floorPlan, stock, modal, pc, loc, taxDocs, profile, timer,
                  access, subs >>

\* The keys of the summaries map, in insertion order.
SummaryKeys(os) ==
  Distinct([n \in 1..Len(Occurrences(os)) |-> Occurrences(os)[n].uniqueKey])

\* One entry of the summaries map.
Summary(os, uniqueKey) ==
  LET individualOrders == IndividualOrders(os, uniqueKey)
  IN  [uniqueKey |-> uniqueKey,
       menuItemId |-> individualOrders[1].menuItemId,
       totalQuantity |-> SumSeq([n \in 1..Len(individualOrders) |->
                                   individualOrders[n].quantity]),
       individualOrders |-> individualOrders]

RECURSIVE InsertSummary(_, _)
InsertSummary(x, s) ==
  IF s = << >> THEN << x >>
  ELSE IF x.totalQuantity >= Head(s).totalQuantity THEN << x >> \o s
       ELSE << Head(s) >> \o InsertSummary(x, Tail(s))

RECURSIVE SortSummaries(_)
\* summaries.sort((a, b) => b.totalQuantity - a.totalQuantity), stable
SortSummaries(s) ==
  IF s = << >> THEN << >> ELSE InsertSummary(Head(s), SortSummaries(Tail(s)))

\* itemSummaries
ItemSummaries(os) ==
  SortSummaries([k \in 1..Len(SummaryKeys(os)) |-> Summary(os, SummaryKeys(os)[k])])

\* Modifier selections of ordered items; an option of a modifier group may
\* be named "none" (no sauce, no ice).
KitchenModifiers ==
  LET none == [optionName |-> "none", optionPrice |-> 0]
      cheese == [optionName |-> "cheese", optionPrice |-> 500]
  IN  { << >>, << none >>, << cheese >>, << none, cheese >>, << cheese, none >>,
        << none, none >> }

\* Items an order in the kitchen may hold: a dish of the menu with such a
\* selection, or a dish since deleted from the menu.
KitchenItems ==
  { [menuItemId |-> id, price |-> 2000 + ModifierSum(mods), quantity |-> q,
     selectedModifiers |-> mods, isCompleted |-> FALSE,
     notes |-> Undefined, inventoryDeducted |-> FALSE] :
      id \in { "m1", "m2" }, q \in 1..MaxQty, mods \in KitchenModifiers }
  \cup { [menuItemId |-> "m0", price |-> 2500, quantity |-> 1,
          selectedModifiers |-> << >>, isCompleted |-> FALSE,
          notes |-> Undefined, inventoryDeducted |-> FALSE] }

KitchenOrderDocs ==
  { NewOrderData(<< it >>, "T1", "dine-in", it.price * it.quantity,
                 AppliedTaxes(it.price * it.quantity), st, Undefined) :
      it \in KitchenItems, st \in { "New", "In Progress", "Ready" } }

\* The kitchen display over any store of MaxOrders such orders.
KdsInit ==
  /\ taxDocs = Taxes
  /\ selectedStation = "all"
  /\ access = NoAccess
  /\ subs = NoSubs
  /\ timer = NoTimer
  /\ profile = [appliedTaxIds |-> AppliedTaxIds]
  /\ orders \in { AddDocs(<< >>, ds) : ds \in [1..MaxOrders -> KitchenOrderDocs] }
  /\ floorPlan = InitTables
  /\ stock = InitStock
  /\ modal = [t \in Term |-> NoModal]
  /\ pc = [t \in Term |-> "idle"]
  /\ loc = [t \in Term |-> NoLoc]
  /\ opsLeft = MaxOps
  /\ last = NoLast

\* One kitchen screen: the station is chosen and items are completed.
KdsNext ==
  \/ \E station \in Stations : SelectStation(station)
  \/ \E n \in 1..(MaxOrders * MaxItems) : CompleteIndividual(1, n)
  \/ CompleteIndividualWrite(1)
  \/ CommitFails(1)

KdsSpec == KdsInit /\ [][KdsNext]_vars

\* The occurrences shown in the queue, each with the key of its group.
QueueEntries ==
  LET sums == ItemSummaries(KdsOrders(orders))
  IN  UNION { { [key |-> sums[g].uniqueKey, occ |-> sums[g].individualOrders[n]] :
                  n \in 1..Len(sums[g].individualOrders) } : g \in 1..Len(sums) }

\* The set of modifier names of a stored item.
NameSet(item) ==
  { item.selectedModifiers[i].optionName : i \in 1..Len(item.selectedModifiers) }

\* The item of the store an occurrence stands for.
ItemOf(occ) == orders[occ.orderId].items[occ.itemIndex]

\* The store's items that belong in the queue under the selected station.
QueueItems ==
  { << o, i >> \in (1..Len(orders)) \X (1..MaxItems) :
      /\ i <= Len(orders[o].items)
      /\ orders[o].status \in { "New", "In Progress" }
      /\ ~orders[o].items[i].isCompleted
      /\ \/ selectedStation = "all"
         \/ \E m \in 1..Len(MenuItems) :
              /\ MenuItems[m].id = orders[o].items[i].menuItemId
              /\ MenuItems[m].stationName = selectedStation }

\* C26: the queue holds exactly the not-completed items of the New and In
\* Progress orders that pass the station filter, each once; two of them are
\* in one group exactly when they have the same menuItemId and the same set
\* of modifier names; a group's totalQuantity is the sum of its occurrences'
\* quantities.
C26_KitchenQueue ==
  LET sums == ItemSummaries(KdsOrders(orders))
  IN  /\ { << e.occ.orderId, e.occ.itemIndex >> : e \in QueueEntries } = QueueItems
      /\ SumSeq([g \in 1..Len(sums) |-> Len(sums[g].individualOrders)])
           = Cardinality(QueueItems)
      /\ \A a, b \in QueueEntries :
           (a.key = b.key) <=>
             /\ ItemOf(a.occ).menuItemId = ItemOf(b.occ).menuItemId
             /\ NameSet(ItemOf(a.occ)) = NameSet(ItemOf(b.occ))
      /\ \A g \in 1..Len(sums) :
           sums[g].totalQuantity
             = SumSeq([n \in 1..Len(sums[g].individualOrders) |->
                         ItemOf(sums[g].individualOrders[n]).quantity])

\* ============================================================ order timer
MaxElapsed == 320    \* seconds a timer is followed

\* prepTimeMinutes of the menu items: unset (<< >>), 0, or a number of minutes
PrepTimes == { << >>, << 0 >>, << 1 >>, << 2 >>, << 5 >> }

\* colorClass of OrderTimer: minutes = Math.floor(elapsedSeconds / 60),
\* percentage = minutes / prepTimeMinutes, compared with 0.8 and 0.5
ColorClass(elapsedSeconds, prepTimeMinutes) ==
  LET minutes == elapsedSeconds \div 60
  IN  IF prepTimeMinutes # << >> /\ prepTimeMinutes[1] > 0
      THEN IF minutes * 10 >= 8 * prepTimeMinutes[1] THEN "red"
           ELSE IF minutes * 10 >= 5 * prepTimeMinutes[1] THEN "yellow"
                ELSE "green"
      ELSE "green"

\* setInterval(..., 1000): elapsedSeconds is read again from the clock, one
\* second later or, when a tick was late, two
TimerTick(d) ==
  /\ timer.elapsedSeconds + d <= MaxElapsed
  /\ timer' = [timer EXCEPT !.elapsedSeconds = timer.elapsedSeconds + d]
  /\ last' = NoLast
  /\ UNCHANGED << orders, floorPlan, stock, modal, pc, loc, opsLeft,
                  taxDocs, profile, selectedStation, access, subs >>

\* A timer mounted on an item of any target prep time.
TimerInit ==
  /\ taxDocs = Taxes
  /\ selectedStation = "all"
  /\ access = NoAccess
  /\ subs = NoSubs
  /\ profile = [appliedTaxIds |-> AppliedTaxIds]
  /\ \E p \in PrepTimes : timer = [elapsedSeconds |-> 0, prepTimeMinutes |-> p]
  /\ orders = << >>
  /\ floorPlan = InitTables
  /\ stock = InitStock
  /\ modal = [t \in Term |-> NoModal]
  /\ pc = [t \in Term |-> "idle"]
  /\ loc = [t \in Term |-> NoLoc]
  /\ opsLeft = MaxOps
  /\ last = NoLast

TimerNext == \E d \in { 1, 2 } : TimerTick(d)

TimerSpec == TimerInit /\ [][TimerNext]_vars

\* C27: with a target prep time T > 0 minutes and e seconds elapsed the timer
\* is green when e is below 50% of T, amber from 50% to below 80% of T, and
\* red from 80% of T; without a target prep time, or T = 0, it is green.
C27_TimerColor ==
  LET e == timer.elapsedSeconds
      T == timer.prepTimeMinutes
  IN  ColorClass(e, T) =
        IF T = << >> \/ T[1] = 0 THEN "green"
        ELSE IF e * 100 < 50 * (T[1] * 60) THEN "green"
             ELSE IF e * 100 < 80 * (T[1] * 60) THEN "yellow"
                  ELSE "red"

\* A send-to-kitchen, finalization or rapid submit of terminal t gets past
\* its checks in this step.
HandlerStarts(t) ==
  pc[t] = "idle" /\ pc'[t] \in { "send_commit", "fin_commit", "rapid_commit" }

\* The batch a handler of terminal t has just built pays in cash.
PaysCash(t) ==
  LET b == loc'[t].batch
  IN  \/ \E i \in 1..Len(b.updates) : b.updates[i].fields.paymentMethod = "cash"
      \/ \E i \in 1..Len(b.creates) : b.creates[i].paymentMethod = "cash"

\* C28: no send-to-kitchen or finalization gets past its checks with an empty
\* cart or with a takeaway ticket without customer identifier, no POS
\* finalization paid in cash does with the tendered amount empty or below
\* the total, and the store (orders, stock, floor plan) changes only in the
\* commit of a handler that got past them.
C28_RejectedBeforeWrite ==
  [][/\ \A t \in Term :
          LET m == modal[t]
          IN  /\ (m.cart = << >> \/ (m.type = "takeaway" /\ m.identifier = ""))
                   => ~HandlerStarts(t)
              /\ ( /\ pc[t] = "idle" /\ pc'[t] = "fin_commit" /\ PaysCash(t)
                   /\ \/ m.tenderedAmount = << >>
                      \/ m.tenderedAmount[1] < ModalTotal(m) )
                   => FALSE
     /\ (orders' # orders \/ stock' # stock \/ floorPlan' # floorPlan)
          => \E t \in Term : Committing(t) /\ last'.t = t /\ last'.ok]_vars

\* C28 witness: nothing is stored although a takeaway ticket without customer
\* name has a priced cart and the exact amount tendered.
C28_Witness ==
  \E t \in Term :
    /\ modal[t].open = "pos" /\ modal[t].type = "takeaway"
    /\ modal[t].identifier = "" /\ modal[t].cart # << >>
    /\ modal[t].tenderedAmount = << ModalTotal(modal[t]) >>
    /\ pc[t] = "idle"
    /\ orders = << >> /\ stock = InitStock /\ floorPlan = InitTables

\* The commit of terminal t's send-to-kitchen, append or finalization fails
\* in this step.
OrderCommitFails(t) ==
  /\ pc[t] \in { "send_commit", "fin_commit", "rapid_commit" }
  /\ last'.t = t /\ last'.kind = pc[t] /\ ~last'.ok

\* C29: when the commit of a send-to-kitchen, append or finalization fails,
\* the cart with its lines, quantities and notes and the identifier are as
\* before, the modal stays open on the same orders, nothing is stored, and
\* the handler is no longer loading.
C29_FailureKeepsCart ==
  [][\A t \in Term :
       OrderCommitFails(t) =>
         /\ modal'[t].open = modal[t].open /\ modal[t].open # "none"
         /\ modal'[t].cart = modal[t].cart
         /\ modal'[t].identifier = modal[t].identifier
         /\ modal'[t].orderIds = modal[t].orderIds
         /\ pc'[t] = "idle"
         /\ orders' = orders /\ stock' = stock /\ floorPlan' = floorPlan]_vars

\* C29 witness: a commit has just failed and the ticket still holds its
\* cart, with a noted line and a line of quantity 2 or more.
C29_Witness ==
  /\ last.kind \in { "send_commit", "fin_commit", "rapid_commit" }
  /\ ~last.ok
  /\ modal[last.t].open # "none"
  /\ pc[last.t] = "idle"
  /\ \E i \in 1..Len(modal[last.t].cart) : modal[last.t].cart[i].notes = "no salt"
  /\ \E i \in 1..Len(modal[last.t].cart) : modal[last.t].cart[i].quantity >= 2

\* ========================================================= security rules
\* Tenants (their owners' uids) and the staff documents of tenant ownerA.
Owners == { "ownerA", "ownerB" }

StaffDocs ==
  { [uid |-> "adminA", restaurantId |-> "ownerA", role |-> "admin"],
    [uid |-> "managerA", restaurantId |-> "ownerA", role |-> "manager"],
    [uid |-> "fohA", restaurantId |-> "ownerA", role |-> "front_of_house"],
    [uid |-> "kitchenA", restaurantId |-> "ownerA", role |-> "kitchen_staff"] }

\* request.auth: << >> when not signed in, else the uid
Auths == { << >> } \cup { << u >> : u \in Owners \cup { d.uid : d \in StaffDocs } }

\* isSignedIn()
IsSignedIn(auth) == auth # << >>

\* isAccountNotLocked(ownerId); locked: the owners whose profile has isLocked
IsAccountNotLocked(ownerId, locked) == ownerId \notin locked

\* isOwnerAndActive(ownerId)
IsOwnerAndActive(auth, ownerId, locked) ==
  auth = << ownerId >> /\ IsAccountNotLocked(ownerId, locked)

\* isStaffWithRoleAndActive(ownerId, allowedRoles)
IsStaffWithRoleAndActive(auth, ownerId, allowedRoles, locked) ==
  /\ \E d \in StaffDocs :
       /\ auth = << d.uid >>
       /\ d.restaurantId = ownerId
       /\ d.role \in allowedRoles
  /\ IsAccountNotLocked(ownerId, locked)

Collections == { "orders", "ingredients", "taxes" }

\* The roles named in the update rule of each collection.
UpdateRoles(collection) ==
  CASE collection = "orders" -> { "admin", "manager", "front_of_house" }
    [] collection = "ingredients" -> { "admin", "manager" }
    [] collection = "taxes" -> { "admin" }

\* allow update (orders, ingredients) / allow write (taxes): orders consult
\* resource.data.userId, ingredients and taxes request.resource.data.userId
AllowUpdate(auth, collection, resourceUserId, requestUserId, locked) ==
  LET ownerId == IF collection = "orders" THEN resourceUserId ELSE requestUserId
  IN  /\ IsSignedIn(auth)
      /\ \/ IsOwnerAndActive(auth, ownerId, locked)
         \/ IsStaffWithRoleAndActive(auth, ownerId, UpdateRoles(collection), locked)

\* allow create: orders `if true`; ingredients and taxes as their update
AllowCreate(auth, collection, requestUserId, locked) ==
  \/ collection = "orders"
  \/ /\ IsSignedIn(auth)
     /\ \/ IsOwnerAndActive(auth, requestUserId, locked)
        \/ IsStaffWithRoleAndActive(auth, requestUserId, UpdateRoles(collection), locked)

\* The rules decide a request: an update of a stored document of tenant
\* resourceUserId to data naming requestUserId, or a creation of such data.
Decide(auth, collection, op, resourceUserId, requestUserId, locked) ==
  /\ access' = [auth |-> auth, collection |-> collection, op |-> op,
                resourceUserId |-> IF op = "update" THEN resourceUserId ELSE "",
                requestUserId |-> requestUserId, locked |-> locked,
                allowed |-> IF op = "update"
                            THEN AllowUpdate(auth, collection, resourceUserId,
                                             requestUserId, locked)
                            ELSE AllowCreate(auth, collection, requestUserId, locked)]
  /\ last' = NoLast
  /\ UNCHANGED << orders, floorPlan, stock, modal, pc, loc, opsLeft,
                  taxDocs, profile, selectedStation, timer, subs >>

AccessInit ==
  /\ taxDocs = Taxes
  /\ selectedStation = "all"
  /\ access = NoAccess
  /\ subs = NoSubs
  /\ timer = NoTimer
  /\ profile = [appliedTaxIds |-> AppliedTaxIds]
  /\ orders = << >>
  /\ floorPlan = InitTables
  /\ stock = InitStock
  /\ modal = [t \in Term |-> NoModal]
  /\ pc = [t \in Term |-> "idle"]
  /\ loc = [t \in Term |-> NoLoc]
  /\ opsLeft = MaxOps
  /\ last = NoLast

AccessNext ==
  \E auth \in Auths, collection \in Collections, op \in { "create", "update" },
     resourceUserId \in Owners, requestUserId \in Owners, locked \in SUBSET Owners :
    Decide(auth, collection, op, resourceUserId, requestUserId, locked)

AccessSpec == AccessInit /\ [][AccessNext]_vars

\* The requester is the owner of the tenant or one of its staff.
OwnerOrStaffOf(auth, ownerId) ==
  \/ auth = << ownerId >>
  \/ \E d \in StaffDocs : auth = << d.uid >> /\ d.restaurantId = ownerId

\* C30: an update of an order, ingredient or tax record is allowed only to a
\* signed-in owner of the tenant owning the record or a staff member of that
\* tenant with a role of the collection's rule; it is denied to the owner
\* and the staff of a locked tenant; creating an order is always allowed.
C30_AccessRules ==
  /\ (access.op = "update" /\ access.allowed) =>
       /\ access.auth # << >>
       /\ \/ access.auth = << access.resourceUserId >>
          \/ \E d \in StaffDocs :
               /\ access.auth = << d.uid >>
               /\ d.restaurantId = access.resourceUserId
               /\ d.role \in UpdateRoles(access.collection)
  /\ ( /\ access.op = "update"
       /\ access.resourceUserId \in access.locked
       /\ OwnerOrStaffOf(access.auth, access.resourceUserId) )
       => ~access.allowed
  /\ (access.op = "create" /\ access.collection = "orders") => access.allowed

\* ============================================================ later claims
\* The units in a cart.
CartUnits(cart) == SumSeq([i \in 1..Len(cart) |-> cart[i].quantity])

\* The cart of terminal t's open modal loses one unit in this step, which is
\* not the re-hydration of the cart from the stored orders.
Decrements(t) ==
  /\ modal[t].open # "none" /\ modal'[t].open = modal[t].open
  /\ ~modal[t].pending
  /\ CartUnits(modal'[t].cart) = CartUnits(modal[t].cart) - 1

\* C31: after every step each cart line has quantity at least 1, and a step
\* that takes one unit off a cart either lowers a line of quantity above 1
\* by one or removes a line of quantity 1, the other lines kept.
C31_CartQuantities ==
  [][\A t \in Term :
       /\ \A i \in 1..Len(modal'[t].cart) : modal'[t].cart[i].quantity >= 1
       /\ Decrements(t) =>
            \E k \in 1..Len(modal[t].cart) :
              LET cart == modal[t].cart
              IN  modal'[t].cart =
                    IF cart[k].quantity = 1
                    THEN [i \in 1..(Len(cart) - 1) |->
                            IF i < k THEN cart[i] ELSE cart[i + 1]]
                    ELSE [cart EXCEPT ![k].quantity = cart[k].quantity - 1]]_vars

\* C31 witness: of the two lines added to a POS cart only the second is
\* left, the first having been decremented from 1.
C31_Witness ==
  \E t \in Term :
    /\ modal[t].open = "pos"
    /\ Len(modal[t].cart) = 1
    /\ modal[t].cart[1].cartItemId \in { << id, 2 >> : id \in MenuIds }
    /\ modal[t].cart[1].quantity = 1

\* ========================================================== subscriptions
\* The query of a page's orders subscription, evaluated on the store.
Query(v, os) ==
  CASE v = "kitchen" -> KdsOrders(os)
    [] v = "floor" -> FloorOrders(os)
    [] v = "expo" -> ExpoOrders(os)

\* The listener that adds the snapshot's orders to the ones it holds.
DeliverAdding(v) ==
  /\ subs[v] # Query(v, orders)
  /\ subs' = [subs EXCEPT ![v] =
                subs[v] \o SelectSeq(Query(v, orders),
                                     LAMBDA o : \A i \in 1..Len(subs[v]) : subs[v][i] # o)]
  /\ last' = NoLast
  /\ UNCHANGED << orders, floorPlan, stock, modal, pc, loc, opsLeft,
                  taxDocs, profile, selectedStation, timer, access >>

\* onSnapshot(query, snapshot => setOrders(snapshot.docs.map(...))): the
\* page's order set is replaced by the query's result on the store
Deliver(v) ==
  /\ subs[v] # Query(v, orders)
  /\ subs' = [subs EXCEPT ![v] = Query(v, orders)]
  /\ last' = NoLast
  /\ UNCHANGED << orders, floorPlan, stock, modal, pc, loc, opsLeft,
                  taxDocs, profile, selectedStation, timer, access >>

\* Orders of one uncompleted dish in any status a page subscribes to.
SyncOrderDocs ==
  { NewOrderData(<< [menuItemId |-> "m1", price |-> 2000, quantity |-> 1,
                     selectedModifiers |-> << >>, isCompleted |-> FALSE,
                     notes |-> Undefined, inventoryDeducted |-> FALSE] >>,
                 "T1", "dine-in", 2000, AppliedTaxes(2000), st, Undefined) :
      st \in FloorStatuses }

\* The pages have just subscribed to a store of up to MaxOrders such orders.
SyncInit ==
  /\ taxDocs = Taxes
  /\ selectedStation = "all"
  /\ access = NoAccess
  /\ subs = NoSubs
  /\ timer = NoTimer
  /\ profile = [appliedTaxIds |-> AppliedTaxIds]
  /\ orders \in { AddDocs(<< >>, ds) :
                    ds \in UNION { [1..n -> SyncOrderDocs] : n \in 0..MaxOrders } }
  /\ floorPlan = InitTables
  /\ stock = InitStock
  /\ modal = [t \in Term |-> NoModal]
  /\ pc = [t \in Term |-> "idle"]
  /\ loc = [t \in Term |-> NoLoc]
  /\ opsLeft = MaxOps
  /\ last = NoLast

\* The kitchen completes items it has been shown, customers place orders,
\* and snapshots arrive.
SyncNext ==
  \/ \E n \in 1..(MaxOrders * MaxItems) :
       subs["kitchen"] = KdsOrders(orders) /\ CompleteIndividual(1, n)
  \/ CompleteIndividualWrite(1)
  \/ CommitFails(1)
  \/ \E ms \in CustomerBaskets, k \in 1..Len(InitTables), extra \in CustomerExtras :
       CustomerPlaceOrder(ms, k, extra)
  \/ \E v \in Views : Deliver(v)

\* Every listener is eventually called with the latest snapshot.
SyncSpec == SyncInit /\ [][SyncNext]_vars /\ \A v \in Views : WF_vars(Deliver(v))

\* Every page holds the result of its query on the store.
Synced == \A v \in Views : subs[v] = Query(v, orders)

\* C32: once the orders of the store no longer change, every subscribed
\* page eventually holds, and keeps, the store's orders matching its query.
C32_ViewsConverge == (<>[][orders' = orders]_vars) => <>[]Synced

\* C32 witness: after the kitchen has completed an order's dish, the kitchen
\* no longer holds the order, the expeditor and floor views hold it as Ready,
\* and every page is in step with the store.
C32_Witness ==
  /\ Synced
  /\ \E o \in 1..Len(orders) :
       /\ orders[o].status = "Ready" /\ orders[o].items[1].isCompleted
       /\ \A i \in 1..Len(subs["kitchen"]) : subs["kitchen"][i].id # o
       /\ \E i \in 1..Len(subs["expo"]) : subs["expo"][i] = orders[o]
       /\ \E i \in 1..Len(subs["floor"]) : subs["floor"][i] = orders[o]

\* C33: an order in status Ready has all its items completed.
C33_ReadyMeansAllCompleted ==
  \A o \in 1..Len(orders) :
    orders[o].status = "Ready" =>
      \A i \in 1..Len(orders[o].items) : orders[o].items[i].isCompleted

\* what the recipes take, at ingredient g, for the items stored on order id
PersistedDeduction(os, id, g) ==
  SumSeq([i \in 1..Len(os[id].items) |->
            os[id].items[i].quantity
            * RecipeQuantity(os[id].items[i].menuItemId, g)])

\* C34: a committed finalization of existing orders lowers each ingredient's
\* stock by exactly what the items stored on the finalized orders take
\* (recipe quantity times stored item quantity), whatever the cart holds.
C34_DeductsPersistedItems ==
  [][\A t \in Term :
       (Committed(t, "fin_commit") /\ loc[t].batch.updates # << >>) =>
         LET ids == {loc[t].batch.updates[i].id :
                       i \in 1..Len(loc[t].batch.updates)}
             idSeq == SelectSeq([o \in 1..Len(orders') |-> orders'[o].id],
                                LAMBDA id : id \in ids)
         IN  \A g \in Ingredients :
               stock'[g] = stock[g]
                           - SumSeq([i \in 1..Len(idSeq) |->
                                       PersistedDeduction(orders', idSeq[i], g)])]_vars

\* C35: an order's items list only grows at its end: over every step each
\* stored order keeps, at every index it had, the item's menuItemId, modifiers,
\* note and quantity.
C35_ItemsAppendOnly ==
  [][\A o \in 1..Len(orders) :
       /\ o <= Len(orders')
       /\ Len(orders'[o].items) >= Len(orders[o].items)
       /\ \A i \in 1..Len(orders[o].items) :
            /\ orders'[o].items[i].menuItemId = orders[o].items[i].menuItemId
            /\ orders'[o].items[i].selectedModifiers
                 = orders[o].items[i].selectedModifiers
            /\ orders'[o].items[i].notes = orders[o].items[i].notes
            /\ orders'[o].items[i].quantity = orders[o].items[i].quantity]_vars

\* ------------------------------------------------------------ cart lines
\* Notes typed on the lines of the cart below.
CartNotes == Notes \cup { "extra hot" }

\* Terminal 1 has RapidOrderModal open to append to order 1, terminal 2 has
\* POSModal open for a takeaway order; both carts are empty.
CartInit ==
  /\ taxDocs = Taxes
  /\ selectedStation = "all"
  /\ access = NoAccess
  /\ subs = NoSubs
  /\ timer = NoTimer
  /\ profile = [appliedTaxIds |-> AppliedTaxIds]
  /\ orders \in InitOrders \ { << >> }
  /\ floorPlan = InitTables
  /\ stock = InitStock
  /\ modal = [t \in Term |->
                IF t = 1
                THEN [open |-> "rapid", type |-> orders[1].orderType,
                      tableNumber |-> orders[1].plateNumber,
                      orderIds |-> << orders[1].id >>,
                      identifier |-> orders[1].plateNumber, cart |-> << >>,
                      pending |-> FALSE, tenderedAmount |-> << >>]
                ELSE [open |-> "pos", type |-> "takeaway", tableNumber |-> "",
                      orderIds |-> << >>, identifier |-> "bob", cart |-> << >>,
                      pending |-> FALSE, tenderedAmount |-> << >>]]
  /\ pc = [t \in Term |-> "idle"]
  /\ loc = [t \in Term |-> NoLoc]
  /\ opsLeft = MaxOps
  /\ last = NoLast

CartNext ==
  \/ \E t \in Term, m \in 1..Len(MenuItems) : SelectItem(t, m)
  \/ \E t \in Term, k \in 1..MaxCartLines, change \in {1, -1} : ChangeQuantity(t, k, change)
  \/ \E t \in Term, k \in 1..MaxCartLines, note \in CartNotes : NoteChange(t, k, note)

CartSpec == CartInit /\ [][CartNext]_vars

\* line j of terminal t's cart has the cartItemId of line k and another note
Twin(t, k, j) ==
  /\ j \in 1..Len(modal[t].cart) /\ j # k
  /\ modal[t].cart[j].cartItemId = modal[t].cart[k].cartItemId
  /\ modal[t].cart[j].notes # modal[t].cart[k].notes

\* where line j is after a change made on line k (line k may have been removed)
PlaceAfter(t, k, j) ==
  IF Len(modal'[t].cart) < Len(modal[t].cart) /\ j > k THEN j - 1 ELSE j

\* C36: in a cart with two lines of the same cartItemId and different notes,
\* a quantity change or a note change made on one line leaves the other
\* line's quantity and note as they were.
C36_OtherLineKept ==
  [][\A t \in Term, k \in 1..MaxCartLines, j \in 1..MaxCartLines :
       ( /\ k \in 1..Len(modal[t].cart)
         /\ Twin(t, k, j)
         /\ \/ \E change \in {1, -1} : ChangeQuantity(t, k, change)
            \/ \E note \in CartNotes : NoteChange(t, k, note) )
       => /\ PlaceAfter(t, k, j) \in 1..Len(modal'[t].cart)
          /\ modal'[t].cart[PlaceAfter(t, k, j)].quantity = modal[t].cart[j].quantity
          /\ modal'[t].cart[PlaceAfter(t, k, j)].notes = modal[t].cart[j].notes]_vars

\* -------------------------------------------------------- takeaway orders
\* Customer identifiers typed for a takeaway order: free text, which may be
\* the label of a table.
TakeawayNames == CustomerNames \cup { InitTables[1].label }

\* A takeaway order the kitchen has finished, as POSModal stored it.
TakeawayOrderDocs ==
  { NewOrderData(PosOrderItems(<< PosCartItem(MenuItems[1], 1) >>, TRUE),
                 name, "takeaway", MenuItems[1].price,
                 AppliedTaxes(MenuItems[1].price), "Ready", Undefined) :
      name \in TakeawayNames }

\* One such order in the store, the tables in any manual status.
TakeawayInit ==
  /\ taxDocs = Taxes
  /\ selectedStation = "all"
  /\ access = NoAccess
  /\ subs = NoSubs
  /\ timer = NoTimer
  /\ profile = [appliedTaxIds |-> AppliedTaxIds]
  /\ orders \in { AddDocs(<< >>, << d >>) : d \in TakeawayOrderDocs }
  /\ floorPlan \in { [k \in 1..Len(InitTables) |->
                        [InitTables[k] EXCEPT !.status = ms[k]]] :
                     ms \in [1..Len(InitTables) -> ManualStatuses] }
  /\ stock = InitStock
  /\ modal = [t \in Term |-> NoModal]
  /\ pc = [t \in Term |-> "idle"]
  /\ loc = [t \in Term |-> NoLoc]
  /\ opsLeft = MaxOps
  /\ last = NoLast

TakeawayNext ==
  \/ \E t \in Term, i \in 1..MaxOrders : ExpoProceedToPayment(t, i)
  \/ \E t \in Term, name \in TakeawayNames : PosOpenTakeaway(t, name)
  \/ \E t \in Term : PosRehydrate(t)
  \/ \E t \in Term, m \in 1..Len(MenuItems) : SelectItem(t, m)
  \/ \E t \in Term, pm \in PaymentMethods :
       \E tendered \in TenderChoices(CartSubtotal(modal[t].cart)
                        + TaxAmount(AppliedTaxes(CartSubtotal(modal[t].cart)))) :
          PosFinalizeOrder(t, pm, tendered)
  \/ \E t \in Term : PosFinalizeCommit(t)
  \/ \E t \in Term : CommitFails(t)

TakeawaySpec == TakeawayInit /\ [][TakeawayNext]_vars

\* the orders a finalization batch completes or creates are all takeaway
FinalizesTakeaway(b) ==
  /\ \A i \in 1..Len(b.updates) : orders[b.updates[i].id].orderType = "takeaway"
  /\ \A i \in 1..Len(b.creates) : b.creates[i].orderType = "takeaway"

\* C37: a committed finalization of takeaway orders, opened from the
\* expeditor view or new, leaves the manual status of every table unchanged.
C37_TakeawayKeepsTables ==
  [][\A t \in Term :
       (Committed(t, "fin_commit") /\ FinalizesTakeaway(loc[t].batch)) =>
         \A k \in 1..Len(floorPlan) :
           /\ Len(floorPlan') = Len(floorPlan)
           /\ floorPlan'[k].status = floorPlan[k].status]_vars

\* ------------------------------------------------ floor plan, two terminals
\* An open dine-in order of table T1, as POSModal stored it.
PlanOrderDocs ==
  { NewOrderData(PosOrderItems(<< PosCartItem(MenuItems[1], 1) >>, FALSE),
                 InitTables[1].label, "dine-in", MenuItems[1].price,
                 AppliedTaxes(MenuItems[1].price), "In Progress", Undefined) }

\* The tables in any manual status; table T1 with or without an open order.
PlanInit ==
  /\ taxDocs = Taxes
  /\ selectedStation = "all"
  /\ access = NoAccess
  /\ subs = NoSubs
  /\ timer = NoTimer
  /\ profile = [appliedTaxIds |-> AppliedTaxIds]
  /\ orders \in { << >> } \cup { AddDocs(<< >>, << d >>) : d \in PlanOrderDocs }
  /\ floorPlan \in { [k \in 1..Len(InitTables) |->
                        [InitTables[k] EXCEPT !.status = ms[k]]] :
                     ms \in [1..Len(InitTables) -> ManualStatuses] }
  /\ stock = InitStock
  /\ modal = [t \in Term |-> NoModal]
  /\ pc = [t \in Term |-> "idle"]
  /\ loc = [t \in Term |-> NoLoc]
  /\ opsLeft = MaxOps
  /\ last = NoLast

PlanNext ==
  \/ \E t \in Term, k \in 1..Len(InitTables) : FloorSelectTable(t, k)
  \/ \E t \in Term : PosRehydrate(t)
  \/ \E t \in Term, m \in 1..Len(MenuItems) : SelectItem(t, m)
  \/ \E t \in Term : PosSendToKitchen(t)
  \/ \E t \in Term : PosSendCommit(t)
  \/ \E t \in Term, pm \in PaymentMethods :
       \E tendered \in TenderChoices(CartSubtotal(modal[t].cart)
                        + TaxAmount(AppliedTaxes(CartSubtotal(modal[t].cart)))) :
          PosFinalizeOrder(t, pm, tendered)
  \/ \E t \in Term : PosFinalizeCommit(t)
  \/ \E t \in Term : CommitFails(t)

PlanSpec == PlanInit /\ [][PlanNext]_vars

\* terminal t's batch commits with a floor-plan write in it
CommitsPlan(t) ==
  /\ Committed(t, "fin_commit") \/ Committed(t, "send_commit")
  /\ loc[t].batch.plan # << >>

\* C38: a commit that changes the manual status of one table (needs_cleaning
\* by a finalization, the status of a new dine-in order) gives that table
\* the status the handler computed and leaves every other table's status as
\* the store holds it at that moment, so a clear made meanwhile on another
\* table stays; clearing a table leaves every other table's status as well.
C38_TableChangesIndependent ==
  [][\A k \in 1..Len(floorPlan) :
       /\ \A t \in Term :
            CommitsPlan(t) =>
              /\ Len(floorPlan') = Len(floorPlan)
              /\ floorPlan'[k].status =
                   IF floorPlan[k].label = modal[t].tableNumber
                   THEN loc[t].batch.plan[1][k].status
                   ELSE floorPlan[k].status
       /\ ClearsTable(k) =>
            \A j \in 1..Len(floorPlan) :
              floorPlan'[j].status = IF j = k THEN "available"
                                     ELSE floorPlan[j].status]_vars

\* ---------------------------------------------------- floor plan: layout
\* The plan FloorPlanEditor hands back for planToEdit: its tables as they
\* were loaded, or with one table added, or with the last table removed.
EditedPlans(plan) ==
  { plan, Append(plan, [id |-> "c", label |-> "T3", status |-> "none"]) }
    \cup (IF Len(plan) > 1 THEN { SubSeq(plan, 1, Len(plan) - 1) } ELSE { })

\* newPlan.tables.map(({ status, ...t }) => t): the records without status
TablesToSave(tables) ==
  [k \in 1..Len(tables) |-> [tables[k] EXCEPT !.status = "none"]]

\* handleSaveLayout: setDoc(planRef, { ...newPlan, tables: tablesToSave },
\* { merge: true }) replaces the stored tables array; the layout is
\* edited on its own page, outside the terminals' modals
SaveLayout(newPlan) ==
  /\ Len(newPlan) <= Len(InitTables) + 1    \* at most one table is added
  /\ Click
  /\ floorPlan' = TablesToSave(newPlan)
  /\ UNCHANGED << orders, stock, modal, pc, loc >>

LayoutNext ==
  \/ \E newPlan \in EditedPlans(floorPlan) : SaveLayout(newPlan)
  \/ \E t \in Term, k \in 1..(Len(InitTables) + 1) : FloorSelectTable(t, k)
  \/ \E t \in Term : PosRehydrate(t)

LayoutSpec == PlanInit /\ [][LayoutNext]_vars

\* C39: saving the layout leaves the stored manual status of every table
\* that was on the plan and still is on it unchanged.
C39_SaveLayoutKeepsStatus ==
  [][\A newPlan \in EditedPlans(floorPlan) :
       SaveLayout(newPlan) =>
         \A k \in 1..Len(floorPlan), j \in 1..Len(floorPlan') :
           floorPlan'[j].id = floorPlan[k].id =>
             floorPlan'[j].status = floorPlan[k].status]_vars

\* ------------------------------------- access rules and the order operations
\* allow read, write of /floorPlans/{userId}
AllowFloorPlanWrite(auth, userId, locked) ==
  /\ IsSignedIn(auth)
  /\ \/ IsOwnerAndActive(auth, userId, locked)
     \/ IsStaffWithRoleAndActive(auth, userId, { "admin", "manager" }, locked)

Operations == { "complete", "bumpAll", "append", "send", "finalize" }

\* The writes each order operation issues in its one updateDoc() or batch:
\* the kitchen's completions and an append update the order; a new dine-in
\* order creates the order and updates the floor plan; the finalization of a
\* table's orders updates the ingredients, the orders and the floor plan.
OperationWrites(operation) ==
  CASE operation \in { "complete", "bumpAll", "append" } ->
         { [collection |-> "orders", op |-> "update"] }
    [] operation = "send" ->
         { [collection |-> "orders", op |-> "create"],
           [collection |-> "floorPlans", op |-> "update"] }
    [] operation = "finalize" ->
         { [collection |-> "ingredients", op |-> "update"],
           [collection |-> "orders", op |-> "update"],
           [collection |-> "floorPlans", op |-> "update"] }

\* One write of tenant ownerId's data by auth; an update keeps the stored
\* userId, so resource and request name the same tenant.
AllowWrite(auth, write, ownerId, locked) ==
  IF write.collection = "floorPlans" THEN AllowFloorPlanWrite(auth, ownerId, locked)
  ELSE IF write.op = "update"
       THEN AllowUpdate(auth, write.collection, ownerId, ownerId, locked)
       ELSE AllowCreate(auth, write.collection, ownerId, locked)

\* The roles of the staff collection.
StaffRoles == { d.role : d \in StaffDocs }

\* handleSelectTable opens POSModal for every role but kitchen_staff
PosRoles == StaffRoles \ { "kitchen_staff" }

\* The roles that work the kitchen display.
KitchenRoles == { "admin", "manager", "kitchen_staff" }

\* The roles the application lets perform an operation.
OperationRoles(operation) ==
  IF operation \in { "complete", "bumpAll" } THEN KitchenRoles ELSE PosRoles

\* auth performs an operation on tenant ownerId's data: the writes commit
\* together or are denied together.
Attempt(auth, operation, ownerId, locked) ==
  /\ access' = [auth |-> auth, collection |-> "batch", op |-> operation,
                resourceUserId |-> ownerId, requestUserId |-> ownerId,
                locked |-> locked,
                allowed |-> \A w \in OperationWrites(operation) :
                              AllowWrite(auth, w, ownerId, locked)]
  /\ last' = NoLast
  /\ UNCHANGED << orders, floorPlan, stock, modal, pc, loc, opsLeft,
                  taxDocs, profile, selectedStation, timer, subs >>

OperationNext ==
  \E auth \in Auths, operation \in Operations, ownerId \in Owners,
     locked \in SUBSET Owners :
    Attempt(auth, operation, ownerId, locked)

OperationSpec == AccessInit /\ [][OperationNext]_vars

\* C40: an order operation performed on a tenant that is not locked, by the
\* tenant's owner or by a staff member of the tenant whose role the
\* application lets perform it, is allowed by the rules in all its writes.
C40_OperationsPermitted ==
  ( /\ access.op \in Operations
    /\ access.resourceUserId \notin access.locked
    /\ \/ access.auth = << access.resourceUserId >>
       \/ \E d \in StaffDocs :
            /\ access.auth = << d.uid >>
            /\ d.restaurantId = access.resourceUserId
            /\ d.role \in OperationRoles(access.op) )
  => access.allowed

====
